---- MODULE Spec2Model ----
(***************************************************************************)
(* Model of the bronze -> silver processing step of the Veltis pipeline    *)
(* (src/src/processing/data_processor.py, class DataProcessor) together    *)
(* with the target schemas of src/src/models/schemas.py.                   *)
(*                                                                         *)
(* Conventions.  A Python str is a tuple of one-character strings.  A cell *)
(* of a DataFrame is a tagged pair: <<"s", chars>> a str, <<"int", n>> an  *)
(* integer, <<"uuid", n>> a uuid4 value (n is the draw number: uuid4 is    *)
(* modelled as a source of fresh values), <<"val", k>> an opaque value     *)
(* that no modelled code inspects, NaN the missing value pandas reads from *)
(* an empty csv field and None the Python None.  A DataFrame is a record   *)
(* [kind, cols, rows]: cols the ordered column names, rows the sequence of *)
(* rows, a row being a function from the column names to cells.  PyNone is *)
(* the None a loader returns.                                              *)
(***************************************************************************)
EXTENDS Integers, Sequences, FiniteSets, TLC

VARIABLES bronze, silver, run, next_uuid, nruns, call

vars == <<bronze, silver, run, next_uuid, nruns, call>>

-----------------------------------------------------------------------------
(* Cells and strings *)

NaN == <<"NaN", 0>>

None == <<"None", 0>>

Str(chars) == <<"s", chars>>

IntCell(n) == <<"int", n>>

Uuid(n) == <<"uuid", n>>

Val(k) == <<"val", k>>

\* a pd.Timestamp: t is the time pd.Timestamp.now() returned
Timestamp(t) == <<"ts", t>>

IsStr(c) == c[1] = "s"

\* pd.isna / pd.notna
IsNa(c) == c[1] \in {"NaN", "None"}

Digits == {"0", "1", "2", "3", "4", "5", "6", "7", "8", "9"}

DigitSeq == <<"0", "1", "2", "3", "4", "5", "6", "7", "8", "9">>

IsDigitString(s) == \A i \in 1..Len(s) : s[i] \in Digits

Repeat(c, n) == [i \in 1..n |-> c]

RECURSIVE NatToStr(_)
\* str(n) of a non-negative int: decimal digits, no leading zero
NatToStr(n) ==
    IF n < 10 THEN <<DigitSeq[n + 1]>>
    ELSE Append(NatToStr(n \div 10), DigitSeq[(n % 10) + 1])

DigitVal(c) == CHOOSE d \in 0..9 : DigitSeq[d + 1] = c

RECURSIVE StrToNat(_)
\* int(s) / pd.to_numeric(s) of a non-empty digit string
StrToNat(s) ==
    IF Len(s) = 0 THEN 0
    ELSE 10 * StrToNat(SubSeq(s, 1, Len(s) - 1)) + DigitVal(s[Len(s)])

\* Series.astype(str) on one cell: a str stays, a missing value becomes "nan"
AsStr(c) ==
    IF IsStr(c) THEN c[2]
    ELSE IF c = NaN THEN <<"n", "a", "n">>
    ELSE IF c = None THEN <<"N", "o", "n", "e">>
    ELSE IF c[1] = "int" THEN NatToStr(c[2])
    ELSE <<"?">>

\* Series.str.replace(r'\.0$', '', regex=True) on one str
StripDotZero(s) ==
    IF Len(s) >= 2 /\ s[Len(s) - 1] = "." /\ s[Len(s)] = "0"
    THEN SubSeq(s, 1, Len(s) - 2)
    ELSE s

\* str.zfill(width): pad on the left with "0" (after a leading sign) up to
\* width; a str of width characters or more is returned unchanged
Zfill(s, width) ==
    IF Len(s) >= width THEN s
    ELSE IF Len(s) > 0 /\ s[1] \in {"+", "-"}
         THEN <<s[1]>> \o Repeat("0", width - Len(s)) \o Tail(s)
         ELSE Repeat("0", width - Len(s)) \o s

StartsWith(s, p) == Len(s) >= Len(p) /\ SubSeq(s, 1, Len(p)) = p

\* Python's  p in s
Contains(s, p) ==
    \E i \in 0..(Len(s) - Len(p)) : SubSeq(s, i + 1, i + Len(p)) = p

-----------------------------------------------------------------------------
(* DataFrames *)

DF(cols, rows) == [kind |-> "df", cols |-> cols, rows |-> rows]

PyNone == [kind |-> "None", cols |-> <<>>, rows |-> <<>>]

\* pd.DataFrame()
EmptyDF == DF(<<>>, <<>>)

IsNone(df) == df.kind = "None"

ColSet(cols) == {cols[i] : i \in 1..Len(cols)}

\* DataFrame.empty: no row or no column
IsEmpty(df) == Len(df.rows) = 0 \/ Len(df.cols) = 0

\* df[names]: the columns names, in that order
Project(df, names) ==
    DF(names, [i \in 1..Len(df.rows) |-> [c \in ColSet(names) |-> df.rows[i][c]]])

\* df[col] = value for every row (a new column goes last)
WithColumn(df, col, value) ==
    DF(IF col \in ColSet(df.cols) THEN df.cols ELSE Append(df.cols, col),
       [i \in 1..Len(df.rows) |->
           [c \in ColSet(df.cols) \cup {col} |->
               IF c = col THEN value ELSE df.rows[i][c]]])

RECURSIVE Flatten(_)
Flatten(ss) == IF Len(ss) = 0 THEN <<>> ELSE Head(ss) \o Flatten(Tail(ss))

\* pd.merge(left, right, left_on=left_on, right_on=right_on, how='inner'):
\* every pair of a left row and a right row with equal keys, in the order of
\* the left rows and, for one left row, of the right rows.  The callers' two
\* frames share no column name, so no _x/_y suffix arises.
Merge(left, right, left_on, right_on) ==
    LET cols == left.cols \o right.cols
        Matches(i) ==
            SelectSeq([j \in 1..Len(right.rows) |-> j],
                      LAMBDA j : left.rows[i][left_on] = right.rows[j][right_on])
        Joined(i, j) ==
            [c \in ColSet(cols) |->
                IF c \in ColSet(left.cols) THEN left.rows[i][c] ELSE right.rows[j][c]]
        RowsOf(i) == [k \in 1..Len(Matches(i)) |-> Joined(i, Matches(i)[k])]
    IN DF(cols, Flatten([i \in 1..Len(left.rows) |-> RowsOf(i)]))

-----------------------------------------------------------------------------
(* Target schemas: dataclasses.fields(schema_class), in declaration order *)

Etablissement ==
    <<"vel_id", "finess_et", "siret", "raison_sociale", "categorie_etab",
      "categorie_detail", "adresse_postale", "code_postal", "departement",
      "date_created", "date_updated", "source", "freshness">>

Qualification ==
    <<"qua_id", "vel_id", "niveau_certification", "date_visite", "url_rapport",
      "date_created", "date_updated", "source", "freshness">>

HealthMetrics ==
    <<"metric_id", "vel_id", "score_all_ssr_ajust", "score_ajust_esatis_region",
      "score_accueil_ssr_ajust", "score_pec_ssr_ajust", "score_lieu_ssr_ajust",
      "score_repas_ssr_ajust", "score_sortie_ssr_ajust", "classement",
      "evolution", "participation", "depot", "annee", "date_created", "source">>

Schemas == {Etablissement, Qualification, HealthMetrics}

-----------------------------------------------------------------------------
(* DataProcessor._enforce_schema *)

RECURSIVE AddMissingFields(_, _)
\* for field in schema_fields: if field not in df.columns: df[field] = None
AddMissingFields(df, fields) ==
    IF Len(fields) = 0 THEN df
    ELSE AddMissingFields(
             IF Head(fields) \in ColSet(df.cols) THEN df
             ELSE WithColumn(df, Head(fields), None),
             Tail(fields))

\* Variant: the missing fields are not added, only the present ones selected
EnforceSchemaNoAdd(df, schema_fields) ==
    IF IsEmpty(df) THEN EmptyDF
    ELSE Project(df, SelectSeq(schema_fields, LAMBDA f : f \in ColSet(df.cols)))

\* Variant: no short-circuit on an empty frame
EnforceSchemaNoShortCircuit(df, schema_fields) ==
    Project(AddMissingFields(df, schema_fields), schema_fields)

\* Variant: the first schema field is left out of the selection
EnforceSchemaSkipFirst(df, schema_fields) ==
    IF IsEmpty(df) THEN EmptyDF
    ELSE Project(AddMissingFields(df, schema_fields), Tail(schema_fields))

\* the returned frame
EnforceSchema(df, schema_fields) ==
    IF IsEmpty(df) THEN EmptyDF
    ELSE Project(AddMissingFields(df, schema_fields), schema_fields)

\* the caller's frame after the call: the missing fields are added in place
EnforceSchemaArg(df, schema_fields) ==
    IF IsEmpty(df) THEN df
    ELSE AddMissingFields(df, schema_fields)

-----------------------------------------------------------------------------
(* Field extraction of load_clean_finess, load_clean_has and               *)
(* load_clean_health_metrics, cell by cell                                 *)

\* width of a facility code (FINESS)
FinessWidth == 9

\* width of a postal code
CpWidth == 5

\* Variant: the ".0" artifact is not stripped
NormalizeIdNoStrip(c, width) == Str(Zfill(AsStr(c), width))

\* .astype(str).str.replace(r'\.0$', '', regex=True).str.zfill(width)
NormalizeId(c, width) == Str(Zfill(StripDotZero(AsStr(c)), width))

\* clean_df['finess_et'] of load_clean_finess
FinessEt(c) == NormalizeId(c, FinessWidth)

\* clean_df['finess_et_link'] of load_clean_has
HasLinkKey(c) == NormalizeId(c, FinessWidth)

\* clean_df['finess_et_link'] of load_clean_health_metrics
MetricsLinkKey(c) == NormalizeId(c, FinessWidth)

\* clean_df['siret']: the artifact is stripped, nothing is padded
Siret(c) == Str(StripDotZero(AsStr(c)))

\* clean_df['raison_sociale'] = df['rslongue'].fillna(df['rs'])
RaisonSociale(rslongue, rs) == IF IsNa(rslongue) THEN rs ELSE rslongue

RECURSIVE JoinSpace(_)
\* ' '.join(parts)
JoinSpace(parts) ==
    IF Len(parts) = 0 THEN <<>>
    ELSE IF Len(parts) = 1 THEN parts[1]
    ELSE parts[1] \o <<" ">> \o JoinSpace(Tail(parts))

\* ' '.join(x.dropna().astype(str)) over the address parts of one row
AdressePostale(parts) ==
    LET kept == SelectSeq(parts, LAMBDA c : ~IsNa(c))
    IN Str(JoinSpace([i \in 1..Len(kept) |-> AsStr(kept[i])]))

RECURSIVE LeadingDigits(_)
\* the longest run of digits the str starts with
LeadingDigits(s) ==
    IF Len(s) > 0 /\ s[1] \in Digits THEN <<s[1]>> \o LeadingDigits(Tail(s))
    ELSE <<>>

\* cp_ville.str.extract(r'^(\d{5})')[0]: the first 5 characters when they are
\* digits, else no match (NaN)
ExtractFiveDigits(s) ==
    IF Len(LeadingDigits(s)) >= CpWidth THEN Str(SubSeq(s, 1, CpWidth)) ELSE NaN

\* cp_ville.str.extract(r'^(\d+)')[0]: the leading digit run, else no match
ExtractLeadingDigits(s) ==
    IF Len(LeadingDigits(s)) >= 1 THEN Str(LeadingDigits(s)) ELSE NaN

\* pd.to_numeric(x, errors='coerce').astype('Int64') on an extracted digit run
ToNumeric(c) == IF IsNa(c) THEN NaN ELSE IntCell(StrToNat(c[2]))

\* Variant: no fallback to the leading digit run when there are fewer than
\* 5 leading digits
CodePostalNoFallback(c) ==
    LET cp_ville == AsStr(c)
        first == ExtractFiveDigits(cp_ville)
    IN ToNumeric(first)

\* clean_df['code_postal'] from df['ligneacheminement']
CodePostal(c) ==
    LET cp_ville == AsStr(c)
        first == ExtractFiveDigits(cp_ville)
        filled == IF IsNa(first) THEN ExtractLeadingDigits(cp_ville) ELSE first
    IN ToNumeric(filled)

\* Variant: str(int(cp)) is not padded back to 5 digits
extract_dept_unpadded(cp) ==
    IF IsNa(cp) THEN None
    ELSE LET s_cp == NatToStr(cp[2])
         IN IF StartsWith(s_cp, <<"9", "7">>)
            THEN Str(SubSeq(s_cp, 1, 3)) ELSE Str(SubSeq(s_cp, 1, 2))

extract_dept(cp) ==
    IF IsNa(cp) THEN None
    ELSE LET s_cp == Zfill(NatToStr(cp[2]), CpWidth)
         IN IF StartsWith(s_cp, <<"9", "7">>)
            THEN Str(SubSeq(s_cp, 1, 3)) ELSE Str(SubSeq(s_cp, 1, 2))

UpperLetters ==
    <<"A", "B", "C", "D", "E", "F", "G", "H", "I", "J", "K", "L", "M", "N",
      "O", "P", "Q", "R", "S", "T", "U", "V", "W", "X", "Y", "Z", "É">>

LowerLetters ==
    <<"a", "b", "c", "d", "e", "f", "g", "h", "i", "j", "k", "l", "m", "n",
      "o", "p", "q", "r", "s", "t", "u", "v", "w", "x", "y", "z", "é">>

\* str.lower()
Lower(s) ==
    [i \in 1..Len(s) |->
        IF \E k \in 1..Len(UpperLetters) : UpperLetters[k] = s[i]
        THEN LowerLetters[CHOOSE k \in 1..Len(UpperLetters) : UpperLetters[k] = s[i]]
        ELSE s[i]]

RECURSIVE LStrip(_)
LStrip(s) == IF Len(s) > 0 /\ s[1] = " " THEN LStrip(Tail(s)) ELSE s

RECURSIVE RStrip(_)
RStrip(s) ==
    IF Len(s) > 0 /\ s[Len(s)] = " " THEN RStrip(SubSeq(s, 1, Len(s) - 1)) ELSE s

\* str.strip()
Strip(s) == RStrip(LStrip(s))

\* Variant: the label is not lower-cased before the keywords are looked for
_map_category_case_sensitive(c) ==
    LET val == AsStr(c)
    IN IF Contains(val, <<"p", "u", "b", "l", "i", "c">>) THEN Str(<<"P", "u", "b", "l", "i", "c">>)
       ELSE IF \/ Contains(val, <<"p", "r", "i", "v", "é">>)
               \/ Contains(val, <<"p", "r", "i", "v", "e">>) THEN Str(<<"P", "r", "i", "v", "é">>)
       ELSE IF Contains(val, <<"e", "s", "p", "i", "c">>) THEN Str(<<"E", "S", "P", "I", "C">>)
       ELSE Str(<<"A", "u", "t", "r", "e">>)

_map_category(c) ==
    LET val == Lower(AsStr(c))
    IN IF Contains(val, <<"p", "u", "b", "l", "i", "c">>) THEN Str(<<"P", "u", "b", "l", "i", "c">>)
       ELSE IF \/ Contains(val, <<"p", "r", "i", "v", "é">>)
               \/ Contains(val, <<"p", "r", "i", "v", "e">>) THEN Str(<<"P", "r", "i", "v", "é">>)
       ELSE IF Contains(val, <<"e", "s", "p", "i", "c">>) THEN Str(<<"E", "S", "P", "I", "C">>)
       ELSE Str(<<"A", "u", "t", "r", "e">>)

\* the columns load_clean_finess reads from finess_clean.csv
FinessRawCols ==
    <<"finess_et", "siret", "rslongue", "rs", "numvoie", "typvoie", "voie",
      "lieuditbp", "ligneacheminement", "libsph">>

\* the columns of the frame load_clean_finess returns, in assignment order
FinessCleanCols ==
    <<"finess_et", "siret", "raison_sociale", "adresse_postale", "code_postal",
      "categorie_detail", "categorie_etab", "departement", "vel_id",
      "date_created", "date_updated", "source">>

\* one row of clean_df from one row of df; vel_id is the uuid drawn for it
FinessCleanRow(r, vel_id, now) ==
    LET cp == CodePostal(r["ligneacheminement"])
    IN [c \in ColSet(FinessCleanCols) |->
        CASE c = "finess_et" -> FinessEt(r["finess_et"])
          [] c = "siret" -> Siret(r["siret"])
          [] c = "raison_sociale" -> RaisonSociale(r["rslongue"], r["rs"])
          [] c = "adresse_postale" ->
                 AdressePostale(<<r["numvoie"], r["typvoie"], r["voie"], r["lieuditbp"]>>)
          [] c = "code_postal" -> cp
          [] c = "categorie_detail" -> Str(Strip(AsStr(r["libsph"])))
          [] c = "categorie_etab" -> _map_category(r["libsph"])
          [] c = "departement" -> extract_dept(cp)
          [] c = "vel_id" -> vel_id
          [] c = "date_created" -> Timestamp(now[1])
          [] c = "date_updated" -> Timestamp(now[2])
          [] c = "source" -> Val("Data.gouv")]

\* A csv file of the bronze directory: exists (Path.exists), ok (pandas reads
\* it and it has the columns the loader names; otherwise the loader's except
\* branch runs), frame (what read_csv returns, each cell as astype(str) shows
\* it)
File(frame) == [exists |-> TRUE, ok |-> TRUE, frame |-> frame]

MissingFile == [exists |-> FALSE, ok |-> FALSE, frame |-> EmptyDF]

BrokenFile == [exists |-> TRUE, ok |-> FALSE, frame |-> EmptyDF]

\* Variant: an empty frame, not None, when the file is missing or unreadable
load_clean_finess_empty(file, first_uuid, now) ==
    IF ~file.exists \/ ~file.ok THEN EmptyDF
    ELSE DF(FinessCleanCols,
            [i \in 1..Len(file.frame.rows) |->
                FinessCleanRow(file.frame.rows[i], Uuid(first_uuid + i - 1), now)])

\* load_clean_finess: None when the file is missing or an exception is
\* caught, else one clean row per row read, with next_uuid + i - 1 the uuid of
\* row i
load_clean_finess(file, first_uuid, now) ==
    IF ~file.exists \/ ~file.ok THEN PyNone
    ELSE DF(FinessCleanCols,
            [i \in 1..Len(file.frame.rows) |->
                FinessCleanRow(file.frame.rows[i], Uuid(first_uuid + i - 1), now)])

\* pd.merge(left, right, on=key, how='inner'): as Merge, with the key column
\* kept once
MergeOn(left, right, key) ==
    LET rest == SelectSeq(right.cols, LAMBDA c : c # key)
        cols == left.cols \o rest
        Matches(i) ==
            SelectSeq([j \in 1..Len(right.rows) |-> j],
                      LAMBDA j : left.rows[i][key] = right.rows[j][key])
        Joined(i, j) ==
            [c \in ColSet(cols) |->
                IF c \in ColSet(left.cols) THEN left.rows[i][c] ELSE right.rows[j][c]]
        RowsOf(i) == [k \in 1..Len(Matches(i)) |-> Joined(i, Matches(i)[k])]
    IN DF(cols, Flatten([i \in 1..Len(left.rows) |-> RowsOf(i)]))

\* the columns of the frame load_clean_has returns, in assignment order;
\* date_visite only when the merged HAS frame has date_de_decision
HasCleanCols(merged) ==
    <<"finess_et_link", "qua_id", "niveau_certification", "url_rapport">>
    \o (IF "date_de_decision" \in ColSet(merged.cols) THEN <<"date_visite">> ELSE <<>>)
    \o <<"source", "freshness", "date_created", "date_updated">>

\* f"https://www.has-sante.fr/jcms/c_{x}" if pd.notna(x) else None
UrlRapport(code_demarche) ==
    IF IsNa(code_demarche) THEN None ELSE <<"url", code_demarche>>

\* pd.to_datetime(x, dayfirst=True, errors='coerce'): NaT for a missing or
\* unparseable value; a date is kept as the opaque value it was read as
ToDatetime(c) == IF c[1] = "val" THEN <<"date", c[2]>> ELSE NaN

\* Variant: the report url is built from the row's qua_id
HasCleanRowUrlFromId(r, finess_col, cols, qua_id, now) ==
    [c \in ColSet(cols) |->
        CASE c = "finess_et_link" -> HasLinkKey(r[finess_col])
          [] c = "qua_id" -> qua_id
          [] c = "niveau_certification" -> r["decision_de_la_cces"]
          [] c = "url_rapport" -> UrlRapport(qua_id)
          [] c = "date_visite" -> ToDatetime(r["date_de_decision"])
          [] c = "source" -> Val("HAS")
          [] c = "freshness" -> Val("Bisannuelle")
          [] c = "date_created" -> Timestamp(now[1])
          [] c = "date_updated" -> Timestamp(now[2])]

HasCleanRow(r, finess_col, cols, qua_id, now) ==
    [c \in ColSet(cols) |->
        CASE c = "finess_et_link" -> HasLinkKey(r[finess_col])
          [] c = "qua_id" -> qua_id
          [] c = "niveau_certification" -> r["decision_de_la_cces"]
          [] c = "url_rapport" -> UrlRapport(r["code_demarche"])
          [] c = "date_visite" -> ToDatetime(r["date_de_decision"])
          [] c = "source" -> Val("HAS")
          [] c = "freshness" -> Val("Bisannuelle")
          [] c = "date_created" -> Timestamp(now[1])
          [] c = "date_updated" -> Timestamp(now[2])]

\* Variant: only the demarche file is looked for, and a missing geo file
\* gives an empty frame
load_clean_has_geo_unchecked(demarche, geo, first_uuid, now) ==
    IF ~demarche.exists THEN PyNone
    ELSE IF ~geo.exists THEN DF(<<"finess_et_link">>, <<>>)
    ELSE IF ~demarche.ok \/ ~geo.ok THEN PyNone
    ELSE IF \/ "code_demarche" \notin ColSet(demarche.frame.cols)
            \/ "code_demarche" \notin ColSet(geo.frame.cols) THEN PyNone
    ELSE LET merged == MergeOn(demarche.frame, geo.frame, "code_demarche")
             finess_col == IF "finess_eg" \in ColSet(merged.cols)
                           THEN "finess_eg" ELSE "finess_ej"
             cols == HasCleanCols(merged)
         IN IF finess_col \notin ColSet(merged.cols) THEN PyNone
            ELSE IF "decision_de_la_cces" \notin ColSet(merged.cols) THEN PyNone
            ELSE DF(cols,
                    [i \in 1..Len(merged.rows) |->
                        HasCleanRow(merged.rows[i], finess_col, cols,
                                    Uuid(first_uuid + i - 1), now)])

\* load_clean_has: None when one of the two files is missing, when reading
\* raises, when code_demarche or the FINESS column is absent, or when
\* decision_de_la_cces is absent (KeyError, caught); else one row per row of
\* the inner merge of the two files on code_demarche
load_clean_has(demarche, geo, first_uuid, now) ==
    IF ~demarche.exists \/ ~geo.exists THEN PyNone
    ELSE IF ~demarche.ok \/ ~geo.ok THEN PyNone
    ELSE IF \/ "code_demarche" \notin ColSet(demarche.frame.cols)
            \/ "code_demarche" \notin ColSet(geo.frame.cols) THEN PyNone
    ELSE LET merged == MergeOn(demarche.frame, geo.frame, "code_demarche")
             finess_col == IF "finess_eg" \in ColSet(merged.cols)
                           THEN "finess_eg" ELSE "finess_ej"
             cols == HasCleanCols(merged)
         IN IF finess_col \notin ColSet(merged.cols) THEN PyNone
            ELSE IF "decision_de_la_cces" \notin ColSet(merged.cols) THEN PyNone
            ELSE DF(cols,
                    [i \in 1..Len(merged.rows) |->
                        HasCleanRow(merged.rows[i], finess_col, cols,
                                    Uuid(first_uuid + i - 1), now)])

\* column names of the metrics file that contain "finess"
FinessLikeNames == {"finess", "finess_geo", "finess_et_link"}

\* next((c for c in df.columns if 'finess' in c), None)
FirstFinessCol(cols) ==
    LET hits == SelectSeq(cols, LAMBDA c : c \in FinessLikeNames)
    IN IF Len(hits) = 0 THEN "" ELSE hits[1]

RECURSIVE WithColumns(_, _, _)
\* successive df[col] = f(row) assignments; vals[k] gives the cell of each row
WithColumns(df, names, vals) ==
    IF Len(names) = 0 THEN df
    ELSE WithColumns(
             DF(IF Head(names) \in ColSet(df.cols) THEN df.cols
                ELSE Append(df.cols, Head(names)),
                [i \in 1..Len(df.rows) |->
                    [c \in ColSet(df.cols) \cup {Head(names)} |->
                        IF c = Head(names) THEN Head(vals)[i] ELSE df.rows[i][c]]]),
             Tail(names), Tail(vals))

\* load_clean_health_metrics: None when the file is missing or reading
\* raises; else a copy of the frame with finess_et_link (when a FINESS column
\* is found), metric_id, source_file and processed_at
load_clean_health_metrics(file, first_uuid, now) ==
    IF ~file.exists \/ ~file.ok THEN PyNone
    ELSE LET df == file.frame
             n == Len(df.rows)
             finess_col == FirstFinessCol(df.cols)
             linked == IF finess_col # ""
                       THEN WithColumns(df, <<"finess_et_link">>,
                                <<[i \in 1..n |-> MetricsLinkKey(df.rows[i][finess_col])]>>)
                       ELSE df
         IN WithColumns(linked, <<"metric_id", "source_file", "processed_at">>,
                <<[i \in 1..n |-> Uuid(first_uuid + i - 1)],
                  [i \in 1..n |-> Val("health_metrics.xlsx")],
                  [i \in 1..n |-> Timestamp(now[1])]>>)

-----------------------------------------------------------------------------
(* Bounds of the model *)

\* rows of a frame handed to _enforce_schema
MaxEnfRows == 2

\* free columns of a frame handed to _enforce_schema
MaxEnfCols == 2

\* digits of a raw facility code
MaxIdDigits == 10

\* rows of finess_clean.csv in a process_year run
MaxEtabRows == 2

\* rows of has_etab_geo_clean.csv in a process_year run
MaxQualRows == 2

\* rows of health_metrics_clean.csv in a process_year run
MaxMetricRows == 2

\* process_year runs of one year in SpecRuns
MaxRuns == 2

\* characters of a raw postal-code / city field
MaxCpLen == 6

MaxLibWords == 2

\* the latest time pd.Timestamp.now() returns
MaxClock == 1

\* data lines of a csv file
MaxLines == 3

\* characters of a raw column header
MaxHeaderLen == 4

\* characters of a cell of a text column of the metrics sheet
MaxCatLen == 4

-----------------------------------------------------------------------------
(* Small sets *)

\* resources of a dataset
MaxResources == 2

\* hours the clock of the connector cache runs
MaxTime == 3

\* largest ttl_hours given to cache_data
MaxTtl == 2

SeqsUpTo(S, n) == UNION {[1..k -> S] : k \in 0..n}

DistinctSeqs(S, k) ==
    {s \in [1..k -> S] : \A i, j \in 1..k : i # j => s[i] # s[j]}

\* No process_year run and no file: the pipeline part of the state while a
\* single function is exercised.
PipelineOff ==
    /\ bronze = <<>>
    /\ silver = <<>>
    /\ run = <<>>
    /\ next_uuid = 0
    /\ nruns = 0

NoCall == [fn |-> "none"]

-----------------------------------------------------------------------------
(* _enforce_schema exercised alone: call = [fn, pc, schema, arg, df, ret],  *)
(* arg the frame as it was handed over, df the caller's frame object, ret   *)
(* the returned frame.                                                      *)

\* column names a frame may carry besides a schema's own: one that every
\* schema has, one that only Qualification has, one that no schema has
EnfPalette == {"vel_id", "qua_id", "finess_et_link"}

EnfVals == {NaN, Val("x")}

EnfColLists ==
    UNION {DistinctSeqs(EnfPalette, k) : k \in 1..MaxEnfCols} \cup Schemas

EnfRows(cols) ==
    IF Len(cols) <= MaxEnfCols THEN [ColSet(cols) -> EnfVals]
    ELSE {[c \in ColSet(cols) |-> Val(c)], [c \in ColSet(cols) |-> NaN]}

\* frames as the callers build them: at least one column, or pd.DataFrame()
EnfFrames ==
    {EmptyDF} \cup
    UNION {{DF(cols, rows) : rows \in SeqsUpTo(EnfRows(cols), MaxEnfRows)} :
               cols \in EnfColLists}

InitEnforce ==
    /\ PipelineOff
    /\ \E df \in EnfFrames, schema \in Schemas :
           call = [fn |-> "_enforce_schema", pc |-> "called", schema |-> schema,
                   arg |-> df, df |-> df, ret |-> PyNone]

EnforceCall ==
    /\ call.fn = "_enforce_schema"
    /\ call.pc = "called"
    /\ call' = [call EXCEPT !.pc = "returned",
                            !.ret = EnforceSchema(call.df, call.schema),
                            !.df = EnforceSchemaArg(call.df, call.schema)]
    /\ UNCHANGED <<bronze, silver, run, next_uuid, nruns>>

NextEnforce == EnforceCall

SpecEnforce == InitEnforce /\ [][NextEnforce]_vars

EnforceReturned == call.fn = "_enforce_schema" /\ call.pc = "returned"

-----------------------------------------------------------------------------
(* The facility-code normalisation of the three loaders exercised on one   *)
(* raw cell: call = [fn, raw, finess_et, has_link, metrics_link], an       *)
(* output being None until its loader's line has run.                      *)

IdDigits == {"0", "1"}

DigitStrings(D, lo, hi) == UNION {[1..k -> D] : k \in lo..hi}

\* what astype(str) shows of a raw facility code: an int column gives the
\* digits, a float column the digits and ".0", a text column the text, a
\* missing value NaN
RawIds ==
    {Str(d) : d \in DigitStrings(IdDigits, 1, MaxIdDigits)}
    \cup {Str(d \o <<".", "0">>) : d \in DigitStrings(IdDigits, 1, MaxIdDigits)}
    \cup {NaN, Str(<<"2", "A", "0", "0", "1">>), Str(<<"1", ".", "5">>), Str(<<>>)}

InitIds ==
    /\ PipelineOff
    /\ \E raw \in RawIds :
           call = [fn |-> "facility_key", raw |-> raw, finess_et |-> None,
                   has_link |-> None, metrics_link |-> None]

NormalizeFinessEt ==
    /\ call.fn = "facility_key"
    /\ call.finess_et = None
    /\ call' = [call EXCEPT !.finess_et = FinessEt(call.raw)]
    /\ UNCHANGED <<bronze, silver, run, next_uuid, nruns>>

NormalizeHasLink ==
    /\ call.fn = "facility_key"
    /\ call.has_link = None
    /\ call' = [call EXCEPT !.has_link = HasLinkKey(call.raw)]
    /\ UNCHANGED <<bronze, silver, run, next_uuid, nruns>>

NormalizeMetricsLink ==
    /\ call.fn = "facility_key"
    /\ call.metrics_link = None
    /\ call' = [call EXCEPT !.metrics_link = MetricsLinkKey(call.raw)]
    /\ UNCHANGED <<bronze, silver, run, next_uuid, nruns>>

NextIds == NormalizeFinessEt \/ NormalizeHasLink \/ NormalizeMetricsLink

SpecIds == InitIds /\ [][NextIds]_vars

-----------------------------------------------------------------------------
(* load_clean_finess exercised alone on a bronze file of at most one row:  *)
(* call = [fn, pc, file, ret].                                             *)

SampleFinessRow ==
    [c \in ColSet(FinessRawCols) |->
        CASE c = "finess_et" -> Str(<<"1", "0", "7", "8", "0", "0", "1", "2">>)
          [] c = "siret" -> Str(<<"2", "6", "0", "1", ".", "0">>)
          [] c = "rslongue" -> NaN
          [] c = "rs" -> Str(<<"C", "H">>)
          [] c = "numvoie" -> Str(<<"9", "0", "0">>)
          [] c = "typvoie" -> NaN
          [] c = "voie" -> Str(<<"R", "T", "E">>)
          [] c = "lieuditbp" -> NaN
          [] c = "ligneacheminement" ->
                 Str(<<"0", "1", "3", "0", "0", " ", "B", "E", "L", "L", "E", "Y">>)
          [] c = "libsph" -> Str(<<"E", "t", "a", "b", " ", "P", "u", "b", "l", "i", "c">>)]

FortDeFrance ==
    <<"9", "7", "2", "0", "0", " ", "F", "O", "R", "T", "-", "D", "E", "-",
      "F", "R", "A", "N", "C", "E">>

Belley == <<"0", "1", "3", "0", "0", " ", "B", "E", "L", "L", "E", "Y">>

CpAlphabet == {"0", "7", "9", " "}

\* raw postal-code / city fields
RawCpVilles ==
    {Str(s) : s \in DigitStrings(CpAlphabet, 0, MaxCpLen)}
    \cup {NaN, Str(FortDeFrance), Str(Belley)}

LibWords ==
    {<<"P", "U", "B", "L", "I", "C">>, <<"P", "u", "b", "l", "i", "c">>,
     <<"E", "S", "P", "I", "C">>, <<"e", "s", "p", "i", "c">>,
     <<"P", "r", "i", "v", "é">>, <<"P", "R", "I", "V", "E">>,
     <<"C", "L", "C", "C">>}

RECURSIVE JoinWords(_)
\* the words of ws, separated by one space
JoinWords(ws) ==
    IF Len(ws) = 0 THEN <<>>
    ELSE IF Len(ws) = 1 THEN ws[1]
    ELSE ws[1] \o <<" ">> \o JoinWords(Tail(ws))

\* raw category labels: a missing value, or up to MaxLibWords words
RawLibSph ==
    {NaN} \cup {Str(JoinWords(ws)) : ws \in SeqsUpTo(LibWords, MaxLibWords)}

ProbeRows ==
    {[SampleFinessRow EXCEPT !["finess_et"] = x] : x \in RawIds}
    \cup {[SampleFinessRow EXCEPT !["ligneacheminement"] = x] : x \in RawCpVilles}
    \cup {[SampleFinessRow EXCEPT !["libsph"] = x] : x \in RawLibSph}

ProbeFiles ==
    {MissingFile, BrokenFile, File(DF(FinessRawCols, <<>>))}
    \cup {File(DF(FinessRawCols, <<r>>)) : r \in ProbeRows}

\* the times of the two pd.Timestamp.now() calls of the exercised call
Epoch == <<0, 0>>

InitFiness ==
    /\ PipelineOff
    /\ \E f \in ProbeFiles :
           call = [fn |-> "load_clean_finess", pc |-> "called", file |-> f,
                   ret |-> PyNone]

LoadCleanFinessCall ==
    /\ call.fn = "load_clean_finess"
    /\ call.pc = "called"
    /\ call' = [call EXCEPT !.pc = "returned",
                            !.ret = load_clean_finess(call.file, next_uuid, Epoch)]
    /\ next_uuid' = next_uuid + Len(load_clean_finess(call.file, next_uuid, Epoch).rows)
    /\ UNCHANGED <<bronze, silver, run, nruns>>

NextFiness == LoadCleanFinessCall

SpecFiness == InitFiness /\ [][NextFiness]_vars

FinessReturned == call.fn = "load_clean_finess" /\ call.pc = "returned"

-----------------------------------------------------------------------------
(* process_year.  bronze[y] is the bronze directory of year y (the four    *)
(* files the loaders read), silver[y] the silver directory (the three      *)
(* files save_processed writes; Absent when the file does not exist),      *)
(* run[y] the process_year(y) call in progress: its position pc, its local *)
(* frames (PyNone while unassigned) and its outcome: "pending", "None"     *)
(* (the bare return of line 280), "dict" (the return of line 337) or       *)
(* "raised" (an exception of to_csv / mkdir leaves process_year).          *)

Years == {2023, 2024}

\* the years process_year is run for
RunYears == {2024}

Absent == [kind |-> "absent", cols |-> <<>>, rows |-> <<>>]

NoDir == [finess |-> MissingFile, has_demarche |-> MissingFile,
          has_etab_geo |-> MissingFile, health_metrics |-> MissingFile]

NoOutput == [etablissements |-> Absent, qualifications |-> Absent,
             health_metrics |-> Absent]

NoRun == [pc |-> "idle", result |-> "pending",
          df_etab |-> PyNone, df_qual_raw |-> PyNone, df_metrics_raw |-> PyNone,
          df_etab_final |-> PyNone, df_qual_final |-> PyNone,
          df_metrics_final |-> PyNone]

S12 == Str(<<"1", "2">>)

S12f == Str(<<"1", "2", ".", "0">>)

S7 == Str(<<"7">>)

EtabIds == {S12, NaN}

QualIds == {S12f, S7}

MetricIds == {S12}

FinessFrame(ids) ==
    DF(FinessRawCols,
       [i \in 1..Len(ids) |-> [SampleFinessRow EXCEPT !["finess_et"] = ids[i]]])

DemarcheFrame ==
    DF(<<"code_demarche", "decision_de_la_cces", "date_de_decision">>,
       <<[code_demarche |-> Val("d1"),
          decision_de_la_cces |-> Str(<<"C", "e", "r", "t", "i", "f", "i", "é">>),
          date_de_decision |-> Val("15/01/2024")]>>)

\* class NiveauCertification(Enum)
NiveauCertification ==
    {Str(<<"H", "a", "u", "t", "e", " ", "Q", "u", "a", "l", "i", "t", "é">>),
     Str(<<"C", "e", "r", "t", "i", "f", "i", "é">>),
     Str(<<"N", "o", "n", " ", "C", "o", "n", "f", "o", "r", "m", "e">>),
     Str(<<"N", "o", "n", " ", "é", "v", "a", "l", "u", "é">>)}

NonCertifie == Str(<<"N", "o", "n", " ", "c", "e", "r", "t", "i", "f", "i", "é">>)

\* decision texts of has_demarche_clean.csv other than "Certifié": a decision
\* the HAS publishes, and a missing one
OtherDecisions == {NonCertifie, NaN}

\* the demarche file with another decision text
DemarcheFrameOf(decision) ==
    DF(DemarcheFrame.cols,
       <<[DemarcheFrame.rows[1] EXCEPT !["decision_de_la_cces"] = decision]>>)

GeoFrame(ids, finess_col) ==
    DF(<<"code_demarche", finess_col>>,
       [i \in 1..Len(ids) |->
           [c \in {"code_demarche", finess_col} |->
               IF c = "code_demarche" THEN Val("d1") ELSE ids[i]]])

MetricsFrame(ids) ==
    DF(<<"finess", "score_all_ssr_ajust", "classement">>,
       [i \in 1..Len(ids) |->
           [finess |-> ids[i], score_all_ssr_ajust |-> Val("73.5"),
            classement |-> Str(<<"A">>)]])

MetricsFrameNoFiness ==
    DF(<<"score_all_ssr_ajust", "classement">>,
       <<[score_all_ssr_ajust |-> Val("73.5"), classement |-> Str(<<"A">>)]>>)

FinessFiles(ids, maxrows) ==
    {MissingFile, BrokenFile}
    \cup {File(FinessFrame(r)) : r \in SeqsUpTo(ids, maxrows)}

\* <<has_demarche_clean.csv, has_etab_geo_clean.csv>>
HasFiles(ids, maxrows) ==
    {<<MissingFile, File(GeoFrame(<<S12f>>, "finess_eg"))>>,
     <<File(DemarcheFrame), MissingFile>>,
     <<BrokenFile, File(GeoFrame(<<S12f>>, "finess_eg"))>>,
     <<File(DemarcheFrame), File(GeoFrame(<<S12f>>, "finess_ej"))>>,
     <<File(DemarcheFrame), File(GeoFrame(<<S12f>>, "siret"))>>,
     <<File(DemarcheFrame), File(GeoFrame(<<NaN>>, "finess_eg"))>>}
    \cup {<<File(DemarcheFrameOf(d)), File(GeoFrame(<<S12f>>, "finess_eg"))>> :
              d \in OtherDecisions}
    \cup {<<File(DemarcheFrame), File(GeoFrame(r, "finess_eg"))>> :
              r \in SeqsUpTo(ids, maxrows)}

MetricsFiles(ids, maxrows) ==
    {MissingFile, BrokenFile, File(MetricsFrameNoFiness), File(MetricsFrame(<<S7>>)),
     File(MetricsFrame(<<NaN>>))}
    \cup {File(MetricsFrame(r)) : r \in SeqsUpTo(ids, maxrows)}

Dirs(finess, has, metrics) ==
    {[finess |-> f, has_demarche |-> h[1], has_etab_geo |-> h[2],
      health_metrics |-> hm] : f \in finess, h \in has, hm \in metrics}

\* the bronze directories a run of Spec may find
BronzeDirs ==
    Dirs(FinessFiles(EtabIds, MaxEtabRows), HasFiles(QualIds, MaxQualRows),
         MetricsFiles(MetricIds, MaxMetricRows))

Init ==
    /\ bronze = [y \in Years |-> NoDir]
    /\ silver = [y \in Years |-> NoOutput]
    /\ run = [y \in Years |-> NoRun]
    /\ next_uuid = 0
    /\ nruns = 0
    /\ call = NoCall

\* The cleaning stage leaves a bronze directory for year y, then
\* process_year(y) is called.
Clean(y, dir) ==
    /\ run[y].pc = "idle"
    /\ bronze' = [bronze EXCEPT ![y] = dir]
    /\ run' = [run EXCEPT ![y].pc = "load_finess"]
    /\ nruns' = nruns + 1
    /\ UNCHANGED <<silver, next_uuid, call>>

\* the times pd.Timestamp.now() returns during a run: the runs of a year are
\* far apart, the calls of one run are not told apart
RunTime == <<nruns, nruns>>

\* line 274
LoadFiness(y) ==
    /\ run[y].pc = "load_finess"
    /\ LET df == load_clean_finess(bronze[y].finess, next_uuid, RunTime)
       IN /\ run' = [run EXCEPT ![y].pc = "load_has", ![y].df_etab = df]
          /\ next_uuid' = next_uuid + Len(df.rows)
    /\ UNCHANGED <<bronze, silver, nruns, call>>

\* line 275
LoadHas(y) ==
    /\ run[y].pc = "load_has"
    /\ LET df == load_clean_has(bronze[y].has_demarche, bronze[y].has_etab_geo,
                                next_uuid, RunTime)
       IN /\ run' = [run EXCEPT ![y].pc = "load_metrics", ![y].df_qual_raw = df]
          /\ next_uuid' = next_uuid + Len(df.rows)
    /\ UNCHANGED <<bronze, silver, nruns, call>>

\* line 276
LoadMetrics(y) ==
    /\ run[y].pc = "load_metrics"
    /\ LET df == load_clean_health_metrics(bronze[y].health_metrics, next_uuid, RunTime)
       IN /\ run' = [run EXCEPT ![y].pc = "check", ![y].df_metrics_raw = df]
          /\ next_uuid' = next_uuid + Len(df.rows)
    /\ UNCHANGED <<bronze, silver, nruns, call>>

\* lines 278-280: no establishment frame, bare return
CheckEtabNone(y) ==
    /\ run[y].pc = "check"
    /\ IsNone(run[y].df_etab)
    /\ run' = [run EXCEPT ![y].pc = "returned", ![y].result = "None"]
    /\ UNCHANGED <<bronze, silver, next_uuid, nruns, call>>

\* Variant: the establishment table is written as soon as it is enforced,
\* before the other tables are linked
EnforceEtabAndWrite(y) ==
    /\ run[y].pc = "check"
    /\ ~IsNone(run[y].df_etab)
    /\ run' = [run EXCEPT
                  ![y].pc = "link_qual",
                  ![y].df_etab_final = EnforceSchema(run[y].df_etab, Etablissement),
                  ![y].df_etab = EnforceSchemaArg(run[y].df_etab, Etablissement)]
    /\ silver' = [silver EXCEPT
                     ![y].etablissements = EnforceSchema(run[y].df_etab, Etablissement)]
    /\ UNCHANGED <<bronze, next_uuid, nruns, call>>

\* lines 278-284: the establishment frame is there and is enforced; the call
\* adds the missing schema fields to df_etab itself
EnforceEtab(y) ==
    /\ run[y].pc = "check"
    /\ ~IsNone(run[y].df_etab)
    /\ run' = [run EXCEPT
                  ![y].pc = "link_qual",
                  ![y].df_etab_final = EnforceSchema(run[y].df_etab, Etablissement),
                  ![y].df_etab = EnforceSchemaArg(run[y].df_etab, Etablissement)]
    /\ UNCHANGED <<bronze, silver, next_uuid, nruns, call>>

\* Variant: how='left', a raw row without a match is kept with a null vel_id
LinkToEtabLeft(raw, df_etab) ==
    LET right == Project(df_etab, <<"finess_et", "vel_id">>)
        inner == Merge(raw, right, "finess_et_link", "finess_et")
        Unmatched(i) ==
            \A j \in 1..Len(right.rows) :
                raw.rows[i]["finess_et_link"] # right.rows[j]["finess_et"]
        lonely == SelectSeq([i \in 1..Len(raw.rows) |-> i], Unmatched)
    IN DF(inner.cols,
          inner.rows \o
          [k \in 1..Len(lonely) |->
              [c \in ColSet(inner.cols) |->
                  IF c \in ColSet(raw.cols) THEN raw.rows[lonely[k]][c] ELSE NaN]])

\* Variant: the raw rows are de-duplicated on the link key before the merge
LinkToEtabFirstPerKey(raw, df_etab) ==
    LET First(i) ==
            \A j \in 1..(i - 1) :
                raw.rows[j]["finess_et_link"] # raw.rows[i]["finess_et_link"]
        keep == SelectSeq([i \in 1..Len(raw.rows) |-> i], First)
        deduped == DF(raw.cols, [k \in 1..Len(keep) |-> raw.rows[keep[k]]])
    IN Merge(deduped, Project(df_etab, <<"finess_et", "vel_id">>),
             "finess_et_link", "finess_et")

\* lines 290-296 and 311-317
LinkToEtab(raw, df_etab) ==
    Merge(raw, Project(df_etab, <<"finess_et", "vel_id">>), "finess_et_link", "finess_et")

\* Variant: the establishments no qualification row links to are dropped
LinkQualFiltersEtab(y) ==
    /\ run[y].pc = "link_qual"
    /\ LET final == IF IsNone(run[y].df_qual_raw) THEN EmptyDF
                    ELSE EnforceSchema(LinkToEtab(run[y].df_qual_raw, run[y].df_etab),
                                       Qualification)
           Linked_(r) == \E i \in 1..Len(final.rows) : final.rows[i]["vel_id"] = r["vel_id"]
       IN run' = [run EXCEPT
                     ![y].pc = "link_metrics",
                     ![y].df_qual_final = final,
                     ![y].df_etab_final =
                         IF IsNone(run[y].df_qual_raw) THEN @
                         ELSE [@ EXCEPT !.rows = SelectSeq(@, Linked_)]]
    /\ UNCHANGED <<bronze, silver, next_uuid, nruns, call>>

\* lines 287-305
LinkQual(y) ==
    /\ run[y].pc = "link_qual"
    /\ run' = [run EXCEPT
                  ![y].pc = "link_metrics",
                  ![y].df_qual_final =
                      IF IsNone(run[y].df_qual_raw) THEN EmptyDF
                      ELSE EnforceSchema(LinkToEtab(run[y].df_qual_raw, run[y].df_etab),
                                         Qualification)]
    /\ UNCHANGED <<bronze, silver, next_uuid, nruns, call>>

\* lines 320-321: merged_metrics['annee'] = year; merged_metrics['source'] = 'IQSS'
MetricsMetadata(merged, y) ==
    WithColumn(WithColumn(merged, "annee", IntCell(y)), "source", Val("IQSS"))

\* lines 308-333
LinkMetrics(y) ==
    /\ run[y].pc = "link_metrics"
    /\ run' = [run EXCEPT
                  ![y].pc = "save_etab",
                  ![y].df_metrics_final =
                      IF \/ IsNone(run[y].df_metrics_raw)
                         \/ "finess_et_link" \notin ColSet(run[y].df_metrics_raw.cols)
                      THEN EmptyDF
                      ELSE EnforceSchema(
                               MetricsMetadata(
                                   LinkToEtab(run[y].df_metrics_raw, run[y].df_etab), y),
                               HealthMetrics)]
    /\ UNCHANGED <<bronze, silver, next_uuid, nruns, call>>

\* Variant: the target directory does not depend on the year
SaveEtabOneDir(y) ==
    /\ run[y].pc = "save_etab"
    /\ silver' = [silver EXCEPT ![2024].etablissements = run[y].df_etab_final]
    /\ run' = [run EXCEPT ![y].pc = "save_qual"]
    /\ UNCHANGED <<bronze, next_uuid, nruns, call>>

\* lines 340-344: mkdir, then etablissements.csv is written whatever the frame
SaveEtab(y) ==
    /\ run[y].pc = "save_etab"
    /\ silver' = [silver EXCEPT ![y].etablissements = run[y].df_etab_final]
    /\ run' = [run EXCEPT ![y].pc = "save_qual"]
    /\ UNCHANGED <<bronze, next_uuid, nruns, call>>

\* lines 347-349: qualifications.csv is written only when the frame is not empty
SaveQual(y) ==
    /\ run[y].pc = "save_qual"
    /\ silver' = [silver EXCEPT
                     ![y].qualifications =
                         IF ~IsEmpty(run[y].df_qual_final) THEN run[y].df_qual_final
                         ELSE @]
    /\ run' = [run EXCEPT ![y].pc = "save_metrics"]
    /\ UNCHANGED <<bronze, next_uuid, nruns, call>>

\* lines 352-354: health_metrics.csv likewise
SaveMetrics(y) ==
    /\ run[y].pc = "save_metrics"
    /\ silver' = [silver EXCEPT
                     ![y].health_metrics =
                         IF ~IsEmpty(run[y].df_metrics_final) THEN run[y].df_metrics_final
                         ELSE @]
    /\ run' = [run EXCEPT ![y].pc = "return"]
    /\ UNCHANGED <<bronze, next_uuid, nruns, call>>

\* Variant: the exception of a failed write is caught and the next table is
\* written
WriteFailsSwallowed(y) ==
    /\ \/ run[y].pc = "save_etab"
       \/ run[y].pc = "save_qual" /\ ~IsEmpty(run[y].df_qual_final)
       \/ run[y].pc = "save_metrics" /\ ~IsEmpty(run[y].df_metrics_final)
    /\ run' = [run EXCEPT ![y].pc = CASE run[y].pc = "save_etab" -> "save_qual"
                                      [] run[y].pc = "save_qual" -> "save_metrics"
                                      [] OTHER -> "return"]
    /\ UNCHANGED <<bronze, silver, next_uuid, nruns, call>>

\* mkdir or to_csv raises (permissions, disk): nothing in process_year or
\* save_processed catches it, the file is not replaced and the call ends there
WriteFails(y) ==
    /\ \/ run[y].pc = "save_etab"
       \/ run[y].pc = "save_qual" /\ ~IsEmpty(run[y].df_qual_final)
       \/ run[y].pc = "save_metrics" /\ ~IsEmpty(run[y].df_metrics_final)
    /\ run' = [run EXCEPT ![y].pc = "returned", ![y].result = "raised"]
    /\ UNCHANGED <<bronze, silver, next_uuid, nruns, call>>

\* line 337
Return(y) ==
    /\ run[y].pc = "return"
    /\ run' = [run EXCEPT ![y].pc = "returned", ![y].result = "dict"]
    /\ UNCHANGED <<bronze, silver, next_uuid, nruns, call>>

ProcessYearStep(y) ==
    \/ LoadFiness(y)
    \/ LoadHas(y)
    \/ LoadMetrics(y)
    \/ CheckEtabNone(y)
    \/ EnforceEtab(y)
    \/ LinkQual(y)
    \/ LinkMetrics(y)
    \/ SaveEtab(y)
    \/ SaveQual(y)
    \/ SaveMetrics(y)
    \/ WriteFails(y)
    \/ Return(y)

Next ==
    \E y \in RunYears :
        \/ \E dir \in BronzeDirs : Clean(y, dir)
        \/ ProcessYearStep(y)

Spec == Init /\ [][Next]_vars

\* the digits of a raw code that is 1 to 9 digits, or 1 to 9 digits and ".0";
\* <<>> for any other raw code
PlainDigits(c) ==
    IF ~IsStr(c) THEN <<>>
    ELSE LET s == c[2]
             n == Len(s)
         IN IF n >= 1 /\ n <= 9 /\ IsDigitString(s) THEN s
            ELSE IF /\ n >= 3
                    /\ n <= 11
                    /\ s[n] = "0"
                    /\ s[n - 1] = "."
                    /\ \A i \in 1..(n - 2) : s[i] \in Digits
                 THEN [i \in 1..(n - 2) |-> s[i]]
                 ELSE <<>>

\* the 9 characters of d written right-aligned on a ground of zeros
LeftPadded9(d) ==
    [i \in 1..9 |-> IF i <= 9 - Len(d) THEN "0" ELSE d[i - (9 - Len(d))]]

-----------------------------------------------------------------------------
(* Repeated runs: process_year is called again for the same year after the *)
(* bronze directory has been rebuilt.                                      *)

\* the bronze directories a run of SpecRuns may find
RerunDirs ==
    Dirs({MissingFile, File(FinessFrame(<<S12>>))},
         {<<MissingFile, File(GeoFrame(<<S12f>>, "finess_eg"))>>,
          <<File(DemarcheFrame), File(GeoFrame(<<S12f>>, "finess_eg"))>>,
          <<File(DemarcheFrame), File(GeoFrame(<<S7>>, "finess_eg"))>>},
         {MissingFile, File(MetricsFrame(<<S12>>))})

\* the call has ended; the next call starts with fresh locals
NextRun(y) ==
    /\ run[y].pc = "returned"
    /\ nruns < MaxRuns
    /\ run' = [run EXCEPT ![y] = NoRun]
    /\ UNCHANGED <<bronze, silver, next_uuid, nruns, call>>

NextRuns ==
    \E y \in RunYears :
        \/ \E dir \in RerunDirs : Clean(y, dir)
        \/ ProcessYearStep(y)
        \/ NextRun(y)

SpecRuns == Init /\ [][NextRuns]_vars

-----------------------------------------------------------------------------
(* The three loaders run twice on the same bronze directory.  call.dir is  *)
(* the directory, call.first and call.second the tables of the two passes, *)
(* call.clock the last time pd.Timestamp.now() returned.                   *)

\* the bronze directories the two passes read
TwiceDirs ==
    Dirs(FinessFiles(EtabIds, 1), HasFiles(QualIds, 1), MetricsFiles(MetricIds, 1))

NoTables == [etablissements |-> PyNone, qualifications |-> PyNone,
             health_metrics |-> PyNone]

\* lines 274-276: the three loaders in turn, each drawing its uuids after the
\* ones of the loader before it; now is <<the time of the loaders' first
\* pd.Timestamp.now(), the time of their second>>
Extract(dir, first_uuid, now) ==
    LET etab == load_clean_finess(dir.finess, first_uuid, now)
        qual == load_clean_has(dir.has_demarche, dir.has_etab_geo,
                               first_uuid + Len(etab.rows), now)
        metrics == load_clean_health_metrics(dir.health_metrics,
                       first_uuid + Len(etab.rows) + Len(qual.rows), now)
    IN [etablissements |-> etab, qualifications |-> qual, health_metrics |-> metrics]

UuidsDrawn(tables) ==
    Len(tables.etablissements.rows) + Len(tables.qualifications.rows)
        + Len(tables.health_metrics.rows)

InitTwice ==
    /\ PipelineOff
    /\ \E dir \in TwiceDirs :
           call = [fn |-> "extract", pc |-> "called", dir |-> dir, clock |-> 0,
                   first |-> NoTables, second |-> NoTables]

ExtractFirst ==
    /\ call.fn = "extract"
    /\ call.pc = "called"
    /\ \E t1, t2 \in call.clock..MaxClock :
           /\ t1 <= t2
           /\ call' = [call EXCEPT !.pc = "once", !.clock = t2,
                                   !.first = Extract(call.dir, next_uuid, <<t1, t2>>)]
           /\ next_uuid' = next_uuid + UuidsDrawn(Extract(call.dir, next_uuid, <<t1, t2>>))
    /\ UNCHANGED <<bronze, silver, run, nruns>>

ExtractAgain ==
    /\ call.fn = "extract"
    /\ call.pc = "once"
    /\ \E t1, t2 \in call.clock..MaxClock :
           /\ t1 <= t2
           /\ call' = [call EXCEPT !.pc = "twice", !.clock = t2,
                                   !.second = Extract(call.dir, next_uuid, <<t1, t2>>)]
           /\ next_uuid' = next_uuid + UuidsDrawn(Extract(call.dir, next_uuid, <<t1, t2>>))
    /\ UNCHANGED <<bronze, silver, run, nruns>>

NextTwice == ExtractFirst \/ ExtractAgain

SpecTwice == InitTwice /\ [][NextTwice]_vars

ExtractedTwice == call.fn = "extract" /\ call.pc = "twice"

-----------------------------------------------------------------------------
(* Reading a csv file line by line.  A raw file is the sequence of its     *)
(* data lines; a line is well formed ("ok"), has more fields than the      *)
(* header ("long"), fewer ("short"), or bytes that are not utf-8           *)
(* ("bad_bytes").  call = [fn, pc, loader, lines, ret].                    *)

Line(kind, row) == [kind |-> kind, row |-> row]

\* the C parser fills the missing trailing fields of a short line with NaN:
\* here the line ends before the postal code / city field
Padded(row) ==
    [row EXCEPT !["ligneacheminement"] = NaN, !["siret"] = NaN, !["libsph"] = NaN]

\* pd.read_csv(path, encoding='utf-8', on_bad_lines=...): UnicodeDecodeError
\* on bytes that are not utf-8; a line with too many fields raises ParserError
\* under on_bad_lines='error' (the default) and is skipped under 'warn'; a
\* line with too few fields is kept, padded with NaN
read_csv(lines, on_bad_lines) ==
    IF \E i \in 1..Len(lines) : lines[i].kind = "bad_bytes" THEN BrokenFile
    ELSE IF on_bad_lines = "error" /\ \E i \in 1..Len(lines) : lines[i].kind = "long"
    THEN BrokenFile
    ELSE LET kept == SelectSeq(lines, LAMBDA l : l.kind \in {"ok", "short"})
         IN File(DF(FinessRawCols,
                    [i \in 1..Len(kept) |->
                        IF kept[i].kind = "short" THEN Padded(kept[i].row)
                        ELSE kept[i].row]))

\* data_cleaner.py, load_clean_finess: reads finess.csv of the raw directory
\* with on_bad_lines='warn' and extracts the same fields, by position
raw_load_clean_finess(lines, first_uuid, now) ==
    load_clean_finess(read_csv(lines, "warn"), first_uuid, now)

\* data_processor.py, load_clean_finess on a file of lines: on_bad_lines is
\* left to its default
bronze_load_clean_finess(lines, first_uuid, now) ==
    load_clean_finess(read_csv(lines, "error"), first_uuid, now)

\* the lines a file may hold: two well-formed establishments and a line of
\* each malformed kind
FileLines ==
    {Line("ok", [SampleFinessRow EXCEPT !["finess_et"] = S12]),
     Line("ok", [SampleFinessRow EXCEPT !["finess_et"] = S7]),
     Line("long", [SampleFinessRow EXCEPT !["finess_et"] = Str(<<"3">>)]),
     Line("short", [SampleFinessRow EXCEPT !["finess_et"] = Str(<<"4">>)]),
     Line("bad_bytes", [SampleFinessRow EXCEPT !["finess_et"] = Str(<<"5">>)])}

InitRead ==
    /\ PipelineOff
    /\ \E lines \in SeqsUpTo(FileLines, MaxLines) :
           call = [fn |-> "read", pc |-> "called", loader |-> "none",
                   lines |-> lines, ret |-> PyNone]

ReadRawFiness ==
    /\ call.fn = "read"
    /\ call.pc = "called"
    /\ call' = [call EXCEPT !.pc = "returned", !.loader = "data_cleaner",
                            !.ret = raw_load_clean_finess(call.lines, next_uuid, Epoch)]
    /\ next_uuid' = next_uuid + Len(raw_load_clean_finess(call.lines, next_uuid, Epoch).rows)
    /\ UNCHANGED <<bronze, silver, run, nruns>>

ReadBronzeFiness ==
    /\ call.fn = "read"
    /\ call.pc = "called"
    /\ call' = [call EXCEPT !.pc = "returned", !.loader = "data_processor",
                            !.ret = bronze_load_clean_finess(call.lines, next_uuid, Epoch)]
    /\ next_uuid' = next_uuid + Len(bronze_load_clean_finess(call.lines, next_uuid, Epoch).rows)
    /\ UNCHANGED <<bronze, silver, run, nruns>>

NextRead == ReadRawFiness \/ ReadBronzeFiness

SpecRead == InitRead /\ [][NextRead]_vars

ReadReturned == call.fn = "read" /\ call.pc = "returned"

-----------------------------------------------------------------------------
(* Column-name normalisation of the metrics spreadsheet, exercised alone:  *)
(* call = [fn, pc, raw, source, ret].                                      *)

\* str.normalize('NFKD').str.encode('ascii', errors='ignore').str.decode('utf-8')
\* on one character: an accented letter keeps its base letter, any other
\* character outside ascii is dropped
AsciiFold(ch) ==
    IF ch = "é" THEN <<"e">>
    ELSE IF ch = "É" THEN <<"E">>
    ELSE IF ch \in {"€", "°"} THEN <<>>
    ELSE <<ch>>

\* \w of the re module, on ascii
IsWordChar(ch) ==
    \/ ch \in Digits
    \/ ch = "_"
    \/ \E k \in 1..26 : ch = UpperLetters[k] \/ ch = LowerLetters[k]

\* \s of the re module
IsSpace(ch) == ch \in {" ", "\t"}

RECURSIVE CollapseSpaces(_)
\* str.replace(r'\s+', '_', regex=True)
CollapseSpaces(s) ==
    IF Len(s) = 0 THEN <<>>
    ELSE IF IsSpace(s[1])
         THEN IF Len(s) > 1 /\ IsSpace(s[2]) THEN CollapseSpaces(Tail(s))
              ELSE <<"_">> \o CollapseSpaces(Tail(s))
    ELSE <<s[1]>> \o CollapseSpaces(Tail(s))

\* lines 250-256: lower, NFKD and ascii, drop [^\w\s], \s+ to "_", strip
normalize_columns(s) ==
    LET lowered == Lower(s)
        ascii == Flatten([i \in 1..Len(lowered) |-> AsciiFold(lowered[i])])
        kept == SelectSeq(ascii, LAMBDA ch : IsWordChar(ch) \/ IsSpace(ch))
    IN Strip(CollapseSpaces(kept))

\* lines 179 and 182: c.lower().replace('ï»¿', '').replace('"', '').strip()
\* (the first replace removes a byte-order mark read as latin-1; the headers
\* drawn here have none)
has_normalize_columns(s) ==
    Strip(SelectSeq(Lower(s), LAMBDA ch : ch # "\""))

HeaderAlphabet == {"T", "é", " ", "%"}

InitHeader ==
    /\ PipelineOff
    /\ \E raw \in DigitStrings(HeaderAlphabet, 0, MaxHeaderLen) :
           call = [fn |-> "normalize_columns", pc |-> "called", raw |-> raw,
                   source |-> "none", ret |-> <<>>]

NormalizeHeader ==
    /\ call.fn = "normalize_columns"
    /\ call.pc = "called"
    /\ call' = [call EXCEPT !.pc = "returned", !.source = "health_metrics",
                            !.ret = normalize_columns(call.raw)]
    /\ UNCHANGED <<bronze, silver, run, next_uuid, nruns>>

NormalizeHasHeader ==
    /\ call.fn = "normalize_columns"
    /\ call.pc = "called"
    /\ call' = [call EXCEPT !.pc = "returned", !.source = "has",
                            !.ret = has_normalize_columns(call.raw)]
    /\ UNCHANGED <<bronze, silver, run, next_uuid, nruns>>

NextHeader == NormalizeHeader \/ NormalizeHasHeader

SpecHeader == InitHeader /\ [][NextHeader]_vars

HeaderReturned == call.fn = "normalize_columns" /\ call.pc = "returned"

-----------------------------------------------------------------------------
(* load_clean_health_metrics of data_cleaner.py, which reads the raw       *)
(* spreadsheet, exercised alone: call = [fn, pc, file, ret].  The frame of *)
(* the file carries the column names as lines 250-256 leave them (see      *)
(* normalize_columns).                                                     *)

\* column names of the metrics sheet that contain 'score', 'taux' or 'valeur'
NumericMarkedNames == {"score_all_ssr_ajust", "taux_reponse", "valeur_cible"}

\* Variant: errors='ignore', a text that is no number is returned as it is
to_numeric_ignore(c) ==
    IF IsStr(c) THEN (IF Len(c[2]) > 0 /\ IsDigitString(c[2]) THEN IntCell(StrToNat(c[2]))
                      ELSE c)
    ELSE IF c[1] = "int" THEN c
    ELSE NaN

\* pd.to_numeric(x, errors='coerce') on one cell: a number stays, a text of
\* digits gives its number, any other text and a missing value give NaN
to_numeric_coerce(c) ==
    IF IsStr(c) THEN (IF Len(c[2]) > 0 /\ IsDigitString(c[2]) THEN IntCell(StrToNat(c[2]))
                      ELSE NaN)
    ELSE IF c[1] = "int" THEN c
    ELSE NaN

\* lines 273-275 on one frame
CoerceNumericColumns(df) ==
    DF(df.cols,
       [i \in 1..Len(df.rows) |->
           [c \in ColSet(df.cols) |->
               IF c \in NumericMarkedNames THEN to_numeric_coerce(df.rows[i][c])
               ELSE df.rows[i][c]]])

\* select_dtypes(include=['object']): the columns that hold a str or a None
ObjectCols(df) ==
    {c \in ColSet(df.cols) :
        \E i \in 1..Len(df.rows) : IsStr(df.rows[i][c]) \/ df.rows[i][c] = None}

RECURSIVE SkipSpaces(_)
SkipSpaces(s) == IF Len(s) > 0 /\ IsSpace(s[1]) THEN SkipSpaces(Tail(s)) ELSE s

\* Variant: r'^\d+\s*-', the spaces after the hyphen stay
StripRankPrefixKeepSpaces(s) ==
    LET digits == LeadingDigits(s)
        after == SkipSpaces(SubSeq(s, Len(digits) + 1, Len(s)))
    IN IF Len(digits) >= 1 /\ Len(after) >= 1 /\ after[1] = "-"
       THEN Tail(after)
       ELSE s

\* re.sub(r'^\d+\s*-\s*', '', s)
StripRankPrefix(s) ==
    LET digits == LeadingDigits(s)
        after == SkipSpaces(SubSeq(s, Len(digits) + 1, Len(s)))
    IN IF Len(digits) >= 1 /\ Len(after) >= 1 /\ after[1] = "-"
       THEN SkipSpaces(Tail(after))
       ELSE s

\* lines 283 and 285 on one cell of an object column
CleanCategorical(c) ==
    LET stripped == StripRankPrefix(AsStr(c))
    IN IF stripped = <<"n", "a", "n">> THEN None ELSE Str(stripped)

\* lines 280-285 on one frame
CleanCategoricalColumns(df) ==
    DF(df.cols,
       [i \in 1..Len(df.rows) |->
           [c \in ColSet(df.cols) |->
               IF c \in ObjectCols(df) THEN CleanCategorical(df.rows[i][c])
               ELSE df.rows[i][c]]])

\* clean_df.rename(columns={old: new}, inplace=True)
Rename(df, old, new) ==
    DF([k \in 1..Len(df.cols) |-> IF df.cols[k] = old THEN new ELSE df.cols[k]],
       [i \in 1..Len(df.rows) |->
           [c \in (ColSet(df.cols) \ {old}) \cup {new} |->
               IF c = new THEN df.rows[i][old] ELSE df.rows[i][c]]])

\* data_cleaner.py, load_clean_health_metrics: None when the file is missing
\* or reading raises; else the frame with finess_et_link and finess_raw (when
\* a FINESS column is found), the marked columns numeric, the text columns
\* without rank prefix, and metric_id, source_file, processed_at
raw_load_clean_health_metrics(file, first_uuid, now) ==
    IF ~file.exists \/ ~file.ok THEN PyNone
    ELSE LET df == file.frame
             n == Len(df.rows)
             finess_col == FirstFinessCol(df.cols)
             linked == IF finess_col = "" THEN df
                       ELSE LET with_key ==
                                    WithColumns(df, <<"finess_et_link">>,
                                        <<[i \in 1..n |-> MetricsLinkKey(df.rows[i][finess_col])]>>)
                            IN IF finess_col # "finess_et_link"
                               THEN Rename(with_key, finess_col, "finess_raw")
                               ELSE with_key
             cleaned == CleanCategoricalColumns(CoerceNumericColumns(linked))
         IN WithColumns(cleaned, <<"metric_id", "source_file", "processed_at">>,
                <<[i \in 1..n |-> Uuid(first_uuid + i - 1)],
                  [i \in 1..n |-> Val("health_metrics.xlsx")],
                  [i \in 1..n |-> Timestamp(now[1])]>>)

\* cells of the score column of the sheet
RawScores == {Str(<<"7", "3">>), Str(<<"N", "C">>), NaN, IntCell(73)}

CatAlphabet == {"2", "-", " ", "A"}

Facultatif == <<"2", "-", " ", "F", "a", "c", "u", "l", "t", "a", "t", "i", "f">>

\* cells of a text column of the sheet
RawCategories ==
    {Str(s) : s \in DigitStrings(CatAlphabet, 0, MaxCatLen)}
    \cup {NaN, Str(<<"n", "a", "n">>), Str(<<"2", "-", "n", "a", "n">>), Str(Facultatif)}

\* the sheet: one row per pair of a score cell and a text cell
RawMetricsFrame(cells) ==
    DF(<<"finess", "score_all_ssr_ajust", "classement">>,
       [i \in 1..Len(cells) |->
           [finess |-> S12, score_all_ssr_ajust |-> cells[i][1],
            classement |-> cells[i][2]]])

RawMetricsFiles ==
    {MissingFile, BrokenFile, File(MetricsFrameNoFiness)}
    \cup {File(RawMetricsFrame(<<<<s, c>>>>)) : s \in RawScores, c \in RawCategories}
    \cup {File(RawMetricsFrame(<<<<s, Str(<<"A">>)>>, <<t, NaN>>>>)) : s, t \in RawScores}

InitMetrics ==
    /\ PipelineOff
    /\ \E f \in RawMetricsFiles :
           call = [fn |-> "load_clean_health_metrics", pc |-> "called",
                   file |-> f, ret |-> PyNone]

RawLoadMetricsCall ==
    /\ call.fn = "load_clean_health_metrics"
    /\ call.pc = "called"
    /\ call' = [call EXCEPT !.pc = "returned",
                   !.ret = raw_load_clean_health_metrics(call.file, next_uuid, Epoch)]
    /\ next_uuid' = next_uuid
                      + Len(raw_load_clean_health_metrics(call.file, next_uuid, Epoch).rows)
    /\ UNCHANGED <<bronze, silver, run, nruns>>

NextMetrics == RawLoadMetricsCall

SpecMetrics == InitMetrics /\ [][NextMetrics]_vars

MetricsReturned == call.fn = "load_clean_health_metrics" /\ call.pc = "returned"

-----------------------------------------------------------------------------
(* Properties of process_year *)

Rows(df) == {df.rows[i] : i \in 1..Len(df.rows)}

EtabAvailable(y) == bronze[y].finess.exists /\ bronze[y].finess.ok

HasMissing(y) == ~bronze[y].has_demarche.exists \/ ~bronze[y].has_etab_geo.exists

MetricsMissing(y) == ~bronze[y].health_metrics.exists

Succeeded(y) == run[y].pc = "returned" /\ run[y].result = "dict"

\* every row of final comes from a row of raw (same id) whose link key is the
\* finess_et of a row of etab_final that has the row's vel_id, and no row of
\* final comes from a raw row whose link key no establishment has
Linked(final, raw, etab_final, id) ==
    /\ \A r \in Rows(final) :
           \E q \in Rows(raw) :
               /\ q[id] = r[id]
               /\ \E e \in Rows(etab_final) :
                      /\ e["vel_id"] = r["vel_id"]
                      /\ e["finess_et"] = q["finess_et_link"]
    /\ \A q \in Rows(raw) :
           (\A e \in Rows(etab_final) : e["finess_et"] # q["finess_et_link"]) =>
               \A r \in Rows(final) : r[id] # q[id]

\* C1: after a run of process_year that succeeds, every row of the returned
\* Qualification and HealthMetrics tables carries the vel_id of a row of the
\* run's Etablissement table whose finess_et is the row's zero-padded
\* facility code, and a raw row whose code no establishment has is absent.
C1_NoOrphanRows ==
    \A y \in RunYears :
        Succeeded(y) =>
            /\ IsNone(run[y].df_qual_raw) => run[y].df_qual_final = EmptyDF
            /\ ~IsNone(run[y].df_qual_raw) =>
                   Linked(run[y].df_qual_final, run[y].df_qual_raw,
                          run[y].df_etab_final, "qua_id")
            /\ IsNone(run[y].df_metrics_raw) => run[y].df_metrics_final = EmptyDF
            /\ (/\ ~IsNone(run[y].df_metrics_raw)
                /\ "finess" \in ColSet(run[y].df_metrics_raw.cols)) =>
                   /\ Linked(run[y].df_metrics_final, run[y].df_metrics_raw,
                             run[y].df_etab_final, "metric_id")
                   /\ \A q \in Rows(run[y].df_metrics_raw) :
                          PlainDigits(q["finess"]) # <<>> =>
                              q["finess_et_link"] = Str(LeftPadded9(PlainDigits(q["finess"])))

\* two raw qualification rows, "12.0" and "7", one establishment "12": the
\* first is linked, the second is dropped; the metric "7" is dropped too
C1_Witness ==
    /\ Succeeded(2024)
    /\ Len(run[2024].df_etab_final.rows) = 1
    /\ Len(run[2024].df_qual_raw.rows) = 2
    /\ Len(run[2024].df_qual_final.rows) = 1
    /\ run[2024].df_qual_final.rows[1]["vel_id"] = run[2024].df_etab_final.rows[1]["vel_id"]
    /\ run[2024].df_etab_final.rows[1]["finess_et"] =
           Str(<<"0", "0", "0", "0", "0", "0", "0", "1", "2">>)
    /\ Len(run[2024].df_metrics_raw.rows) = 1
    /\ run[2024].df_metrics_final = EmptyDF

\* C2: process_year returns None exactly when the establishment file is
\* missing or unreadable, and such a run creates or modifies no file of the
\* silver directory, whatever the HAS and metrics files are.  (An exception
\* of a failed write is the outcome "raised", not a return.)
C2_FailsIffNoEtab ==
    /\ [](\A y \in RunYears :
              run[y].pc = "returned" =>
                  (run[y].result = "None" <=> ~EtabAvailable(y)))
    /\ [][\A y \in RunYears :
              (run[y].pc \notin {"idle", "returned"} /\ ~EtabAvailable(y)) =>
                  silver'[y] = silver[y]]_vars

\* a second run finds no establishment file but both other sources, and ends
\* with None while the three files of the first run are still there
C2_Witness ==
    /\ run[2024].pc = "returned"
    /\ run[2024].result = "None"
    /\ nruns = 2
    /\ ~bronze[2024].finess.exists
    /\ ~IsNone(run[2024].df_qual_raw)
    /\ ~IsNone(run[2024].df_metrics_raw)
    /\ silver[2024].etablissements # Absent
    /\ silver[2024].qualifications # Absent
    /\ silver[2024].health_metrics # Absent

\* the number of pairs (row of raw, row of etab) with equal keys
MatchCount(raw, etab) ==
    Cardinality({p \in (1..Len(raw.rows)) \X (1..Len(etab.rows)) :
                    raw.rows[p[1]]["finess_et_link"] = etab.rows[p[2]]["finess_et"]})

\* C3: with the establishment file available, a missing HAS file (either of
\* the two) or a missing metrics file makes its loader return None, and
\* process_year does not fail for it: it never returns None, and when it
\* returns (no write having raised) etablissements.csv holds the
\* establishment table, the table of each missing source is the empty frame
\* and the table of the other source has its linked rows.
C3_MissingOptionalSource ==
    \A y \in RunYears :
        /\ (run[y].pc \notin {"idle", "load_finess", "load_has"} /\ HasMissing(y)) =>
               IsNone(run[y].df_qual_raw)
        /\ (run[y].pc \notin {"idle", "load_finess", "load_has", "load_metrics"}
            /\ MetricsMissing(y)) =>
               IsNone(run[y].df_metrics_raw)
        /\ (run[y].pc = "returned" /\ EtabAvailable(y)
            /\ (HasMissing(y) \/ MetricsMissing(y))) =>
               /\ run[y].result \in {"dict", "raised"}
               /\ run[y].result = "dict" =>
                      /\ silver[y].etablissements = run[y].df_etab_final
                      /\ HasMissing(y) => run[y].df_qual_final = EmptyDF
                      /\ MetricsMissing(y) => run[y].df_metrics_final = EmptyDF
                      /\ ~IsNone(run[y].df_qual_raw) =>
                             Len(run[y].df_qual_final.rows) =
                                 MatchCount(run[y].df_qual_raw, run[y].df_etab)
                      /\ (/\ ~IsNone(run[y].df_metrics_raw)
                          /\ "finess_et_link" \in ColSet(run[y].df_metrics_raw.cols)) =>
                             Len(run[y].df_metrics_final.rows) =
                                 MatchCount(run[y].df_metrics_raw, run[y].df_etab)

\* the geo file is missing, the metrics file is there: qualifications are
\* empty, the metric row is linked and written
C3_Witness ==
    /\ Succeeded(2024)
    /\ bronze[2024].has_demarche.exists
    /\ ~bronze[2024].has_etab_geo.exists
    /\ IsNone(run[2024].df_qual_raw)
    /\ run[2024].df_qual_final = EmptyDF
    /\ Len(run[2024].df_etab_final.rows) = 2
    /\ Len(run[2024].df_metrics_final.rows) = 1
    /\ silver[2024].etablissements = run[2024].df_etab_final
    /\ silver[2024].health_metrics = run[2024].df_metrics_final

\* the file holds the frame, an empty frame counting as no file
HoldsTable(file, df) == file = df \/ (IsEmpty(df) /\ file = Absent)

\* C4 as stated: after any sequence of successful runs for one year, each of
\* the three files of the year holds the table of the most recent run.
C4_LastWriteWins ==
    \A y \in RunYears :
        Succeeded(y) =>
            /\ HoldsTable(silver[y].etablissements, run[y].df_etab_final)
            /\ HoldsTable(silver[y].qualifications, run[y].df_qual_final)
            /\ HoldsTable(silver[y].health_metrics, run[y].df_metrics_final)

\* C5: on a frame with at least one row, _enforce_schema returns a frame whose
\* columns are exactly the schema's fields in the schema's order; a field the
\* input lacks is None in every row, a column outside the schema is dropped,
\* and a shared column keeps its values row by row.
C5_EnforceExactFields ==
    (EnforceReturned /\ Len(call.arg.rows) >= 1) =>
        /\ call.ret.kind = "df"
        /\ call.ret.cols = call.schema
        /\ Len(call.ret.rows) = Len(call.arg.rows)
        /\ \A i \in 1..Len(call.ret.rows) :
               /\ DOMAIN call.ret.rows[i] = ColSet(call.schema)
               /\ \A c \in ColSet(call.schema) :
                      call.ret.rows[i][c] =
                          IF c \in ColSet(call.arg.cols)
                          THEN call.arg.rows[i][c] ELSE None

\* a two-row frame with a shared column holding a value, a column outside the
\* schema and a schema field to add
C5_Witness ==
    /\ EnforceReturned
    /\ Len(call.arg.rows) = 2
    /\ call.schema = Qualification
    /\ call.arg.cols = <<"finess_et_link", "qua_id">>
    /\ call.arg.rows[1]["qua_id"] = Val("x")
    /\ call.arg.rows[2]["qua_id"] = NaN
    /\ call.ret.rows[1]["vel_id"] = None

\* C6: on a frame with zero rows _enforce_schema returns an empty frame with
\* no field at all and raises nothing, whatever columns the input has.
C6_EnforceEmptyShortCircuit ==
    (EnforceReturned /\ Len(call.arg.rows) = 0) =>
        /\ call.ret.kind = "df"
        /\ call.ret.cols = <<>>
        /\ call.ret.rows = <<>>

C6_Witness ==
    /\ EnforceReturned
    /\ Len(call.arg.rows) = 0
    /\ call.arg.cols = <<"vel_id", "finess_et_link">>
    /\ call.schema = HealthMetrics
    /\ call.ret = EmptyDF

\* C7 as stated: on every frame whose columns are exactly the schema's fields
\* in schema order, _enforce_schema keeps the field set and the field order.
C7_Original ==
    (EnforceReturned /\ call.arg.cols = call.schema) =>
        call.ret.cols = call.arg.cols

\* C7 amended: the same for every such frame that has at least one row.
C7_EnforceCompliantIdentity ==
    (EnforceReturned /\ call.arg.cols = call.schema /\ Len(call.arg.rows) >= 1) =>
        /\ call.ret.cols = call.arg.cols
        /\ ColSet(call.ret.cols) = ColSet(call.arg.cols)

C7_Witness ==
    /\ EnforceReturned
    /\ call.arg.cols = Etablissement
    /\ call.schema = Etablissement
    /\ Len(call.arg.rows) = 2
    /\ call.ret.cols = Etablissement

\* C8: a raw facility code of 1 to 9 digits, with or without a trailing ".0",
\* is normalised to exactly 9 characters, its digits left-padded with zeros,
\* and the establishment key, the qualification link key and the metric link
\* key of one raw code are that same value.
C8_IdNormalization ==
    (call.fn = "facility_key" /\ PlainDigits(call.raw) # <<>>) =>
        \A out \in {call.finess_et, call.has_link, call.metrics_link} :
            out # None =>
                /\ out = Str(LeftPadded9(PlainDigits(call.raw)))
                /\ Len(out[2]) = 9

\* the float artifact "10.0" has gone through the three loaders' lines
C8_Witness ==
    /\ call.fn = "facility_key"
    /\ call.raw = Str(<<"1", "0", ".", "0">>)
    /\ call.finess_et = Str(<<"0", "0", "0", "0", "0", "0", "0", "1", "0">>)
    /\ call.has_link = call.finess_et
    /\ call.metrics_link = call.finess_et

\* C9 as stated: every row of a frame load_clean_finess returns has a
\* finess_et of exactly 9 characters, whatever the raw facility code.
C9_FinessEtLength9 ==
    (FinessReturned /\ ~IsNone(call.ret)) =>
        \A i \in 1..Len(call.ret.rows) : Len(call.ret.rows[i]["finess_et"][2]) = 9

\* the 5 digits of a postal code below 100000, by arithmetic
FiveDigits(n) ==
    [i \in 1..5 |-> DigitSeq[((n \div (10 ^ (5 - i))) % 10) + 1]]

DepartmentOf(cp) ==
    IF IsNa(cp) THEN None
    ELSE LET d == FiveDigits(cp[2])
         IN IF d[1] = "9" /\ d[2] = "7" THEN Str(<<d[1], d[2], d[3]>>)
            ELSE Str(<<d[1], d[2]>>)

\* C10: in every establishment row departement is determined by code_postal:
\* null exactly when the postal code is null, else the first 3 of its 5
\* zero-padded digits when they start with "97" and the first 2 otherwise;
\* "97200 FORT-DE-FRANCE" gives "972" and "01300 BELLEY" gives "01".
C10_Department ==
    (FinessReturned /\ ~IsNone(call.ret)) =>
        \A i \in 1..Len(call.ret.rows) :
            LET row == call.ret.rows[i]
                raw == call.file.frame.rows[i]["ligneacheminement"]
            IN /\ row["departement"] = DepartmentOf(row["code_postal"])
               /\ IsNa(row["departement"]) <=> IsNa(row["code_postal"])
               /\ raw = Str(FortDeFrance) => row["departement"] = Str(<<"9", "7", "2">>)
               /\ raw = Str(Belley) => row["departement"] = Str(<<"0", "1">>)

\* a mainland code with a leading zero, from a field that starts with 5 digits
C10_Witness ==
    /\ FinessReturned
    /\ Len(call.ret.rows) = 1
    /\ call.file.frame.rows[1]["ligneacheminement"] = Str(<<"0", "7", "9", "0", "0", " ">>)
    /\ call.ret.rows[1]["code_postal"] = IntCell(7900)
    /\ call.ret.rows[1]["departement"] = Str(<<"0", "7">>)

\* the number of digits the text starts with
DigitRunLen(s) ==
    CHOOSE k \in 0..Len(s) :
        /\ \A i \in 1..k : s[i] \in Digits
        /\ k < Len(s) => s[k + 1] \notin Digits

\* the number the k first characters of s write in base 10
DecimalOf(s, k) ==
    LET D(i) == CHOOSE d \in 0..9 : DigitSeq[d + 1] = s[i]
        RECURSIVE Sum(_)
        Sum(i) == IF i = 0 THEN 0 ELSE Sum(i - 1) + D(i) * 10 ^ (k - i)
    IN Sum(k)

\* C11: code_postal of an establishment row is the number written by the
\* first 5 characters of the postal/city field when it starts with at least
\* 5 digits, by the whole leading digit run when it starts with 1 to 4
\* digits, and null when it starts with no digit or is missing; the loader
\* returns a table for every such field; "01300 BELLEY" gives the integer
\* 1300 (01300).
C11_PostalCode ==
    FinessReturned =>
        /\ (call.file.exists /\ call.file.ok) => ~IsNone(call.ret)
        /\ ~IsNone(call.ret) =>
               \A i \in 1..Len(call.ret.rows) :
                   LET raw == call.file.frame.rows[i]["ligneacheminement"]
                       s == IF IsStr(raw) THEN raw[2] ELSE <<>>
                       k == DigitRunLen(s)
                       cp == call.ret.rows[i]["code_postal"]
                   IN /\ k >= 5 => cp = IntCell(DecimalOf(s, 5))
                      /\ (k >= 1 /\ k <= 4) => cp = IntCell(DecimalOf(s, k))
                      /\ k = 0 => cp = NaN
                      /\ raw = Str(Belley) => cp = IntCell(1300)

\* a field that starts with 3 digits only
C11_Witness ==
    /\ FinessReturned
    /\ Len(call.ret.rows) = 1
    /\ call.file.frame.rows[1]["ligneacheminement"] = Str(<<"7", "9", "0", " ", "9", "9">>)
    /\ call.ret.rows[1]["code_postal"] = IntCell(790)

\* the letter in lower case
Fold(ch) ==
    IF \E k \in 1..Len(UpperLetters) : UpperLetters[k] = ch
    THEN LowerLetters[CHOOSE k \in 1..Len(UpperLetters) : UpperLetters[k] = ch]
    ELSE ch

\* the text has the word somewhere, letter case ignored
HasWord(c, w) ==
    /\ IsStr(c)
    /\ \E off \in 0..Len(c[2]) :
           /\ off + Len(w) <= Len(c[2])
           /\ \A i \in 1..Len(w) : Fold(c[2][off + i]) = w[i]

WPublic == <<"p", "u", "b", "l", "i", "c">>

WEspic == <<"e", "s", "p", "i", "c">>

WPrive == <<"p", "r", "i", "v", "e">>

WPriveAccent == <<"p", "r", "i", "v", "é">>

\* C12 as stated: a label that contains "ESPIC" (any case) and not "public"
\* is classified ESPIC, also when it contains "privé" or "prive".
C12_EspicBeforePrive ==
    (FinessReturned /\ ~IsNone(call.ret)) =>
        \A i \in 1..Len(call.ret.rows) :
            LET raw == call.file.frame.rows[i]["libsph"]
            IN (HasWord(raw, WEspic) /\ ~HasWord(raw, WPublic)) =>
                   call.ret.rows[i]["categorie_etab"] = Str(<<"E", "S", "P", "I", "C">>)

\* C13: every label, a missing one included, gets one of the four categories
\* Public, Privé, ESPIC, Autre; a label with "public" in any letter case gets
\* Public whatever else it contains; a label with none of the keywords and a
\* missing label get Autre.
C13_CategoryTotal ==
    (FinessReturned /\ ~IsNone(call.ret)) =>
        \A i \in 1..Len(call.ret.rows) :
            LET raw == call.file.frame.rows[i]["libsph"]
                cat == call.ret.rows[i]["categorie_etab"]
            IN /\ cat \in {Str(<<"P", "u", "b", "l", "i", "c">>),
                           Str(<<"P", "r", "i", "v", "é">>),
                           Str(<<"E", "S", "P", "I", "C">>),
                           Str(<<"A", "u", "t", "r", "e">>)}
               /\ HasWord(raw, WPublic) => cat = Str(<<"P", "u", "b", "l", "i", "c">>)
               /\ (/\ ~HasWord(raw, WPublic)
                   /\ ~HasWord(raw, WEspic)
                   /\ ~HasWord(raw, WPrive)
                   /\ ~HasWord(raw, WPriveAccent)) =>
                      cat = Str(<<"A", "u", "t", "r", "e">>)
               /\ IsNa(raw) => cat = Str(<<"A", "u", "t", "r", "e">>)

\* "ESPIC PUBLIC": public wins although it comes second in the label
C13_Witness ==
    /\ FinessReturned
    /\ Len(call.ret.rows) = 1
    /\ call.file.frame.rows[1]["libsph"] =
           Str(<<"E", "S", "P", "I", "C", " ", "P", "U", "B", "L", "I", "C">>)
    /\ call.ret.rows[1]["categorie_etab"] = Str(<<"P", "u", "b", "l", "i", "c">>)

\* the two tables have the same columns and rows, the columns of ignored aside
SameExcept(a, b, ignored) ==
    /\ IsNone(a) <=> IsNone(b)
    /\ ~IsNone(a) =>
           /\ a.cols = b.cols
           /\ Len(a.rows) = Len(b.rows)
           /\ \A i \in 1..Len(a.rows) :
                  \A c \in ColSet(a.cols) \ ignored : a.rows[i][c] = b.rows[i][c]

C15_CertificationLevelEnum ==
    \A y \in RunYears :
        Succeeded(y) =>
            /\ \A r \in Rows(run[y].df_qual_final) :
                   r["niveau_certification"] \in NiveauCertification
            /\ \A r \in Rows(silver[y].qualifications) :
                   r["niveau_certification"] \in NiveauCertification

\* the finess_et of the lines of the file that are well formed, in order
WellFormedIds(lines) ==
    LET ok == SelectSeq(lines, LAMBDA l : l.kind = "ok")
    IN [i \in 1..Len(ok) |-> ok[i].row["finess_et"]]

\* C16 as stated: whatever malformed lines (wrong field count, bytes that are
\* not valid in the encoding) the establishment file holds, the loader
\* returns a table, not None, and the table has exactly the well-formed lines
\* of the file, in order.
C16_MalformedRowSkipped ==
    ReadReturned =>
        /\ ~IsNone(call.ret)
        /\ Len(call.ret.rows) = Len(WellFormedIds(call.lines))
        /\ \A i \in 1..Len(call.ret.rows) :
               call.ret.rows[i]["finess_et"] = HasLinkKey(WellFormedIds(call.lines)[i])

\* the base letter, in lower case, of a letter; any other character as it is
BaseLower(ch) == IF ch \in {"é", "É"} THEN "e" ELSE Fold(ch)

RECURSIVE Underscored(_)
\* every run of spaces becomes one "_", every other character that is not a
\* letter, a digit or "_" becomes "_"
Underscored(s) ==
    IF Len(s) = 0 THEN <<>>
    ELSE IF s[1] = " "
         THEN (IF Len(s) > 1 /\ s[2] = " " THEN <<>> ELSE <<"_">>) \o Underscored(Tail(s))
    ELSE IF s[1] \in Digits \cup {"_"} \/ \E k \in 1..26 : s[1] = LowerLetters[k]
         THEN <<s[1]>> \o Underscored(Tail(s))
    ELSE <<"_">> \o Underscored(Tail(s))

\* C17 as stated: the normalised column name is the raw header in lower
\* case, accents folded to the base letter, every non-word character
\* replaced by an underscore and every run of whitespace replaced by one
\* underscore.
C17_HeaderNormalization ==
    HeaderReturned =>
        call.ret = Underscored([i \in 1..Len(call.raw) |-> BaseLower(call.raw[i])])

\* <<d, a, b>>: s starts with d >= 1 digits, a spaces, a hyphen and b spaces,
\* and no space follows
RankPrefixes(s) ==
    {p \in (1..Len(s)) \X (0..Len(s)) \X (0..Len(s)) :
        /\ p[1] + p[2] + 1 + p[3] <= Len(s)
        /\ \A i \in 1..p[1] : s[i] \in Digits
        /\ \A i \in (p[1] + 1)..(p[1] + p[2]) : s[i] = " "
        /\ s[p[1] + p[2] + 1] = "-"
        /\ \A i \in (p[1] + p[2] + 2)..(p[1] + p[2] + 1 + p[3]) : s[i] = " "
        /\ p[1] + p[2] + 1 + p[3] < Len(s) => s[p[1] + p[2] + p[3] + 2] # " "}

WithoutRankPrefix(s) ==
    IF RankPrefixes(s) = {} THEN s
    ELSE LET p == CHOOSE q \in RankPrefixes(s) : TRUE
         IN SubSeq(s, p[1] + p[2] + p[3] + 2, Len(s))

\* C18: in the text columns of the health metrics a text that starts with
\* digits, optional spaces, a hyphen and optional spaces loses exactly that
\* prefix, any other text is unchanged, and a value that reads "nan" after
\* that (a missing value included) is null; "2- Facultatif" becomes
\* "Facultatif".
C18_PrefixStripping ==
    (MetricsReturned /\ ~IsNone(call.ret)) =>
        \A i \in 1..Len(call.ret.rows) :
            LET raw == call.file.frame.rows[i]["classement"]
                out == call.ret.rows[i]["classement"]
            IN /\ IsStr(raw) =>
                      IF WithoutRankPrefix(raw[2]) = <<"n", "a", "n">> THEN IsNa(out)
                      ELSE out = Str(WithoutRankPrefix(raw[2]))
               /\ IsNa(raw) => IsNa(out)
               /\ raw = Str(Facultatif) =>
                      out = Str(<<"F", "a", "c", "u", "l", "t", "a", "t", "i", "f">>)
               /\ "finess_raw" \in ColSet(call.ret.cols) =>
                      call.ret.rows[i]["finess_raw"] = call.file.frame.rows[i]["finess"]

\* "2- A" becomes "A"
C18_Witness ==
    /\ MetricsReturned
    /\ Len(call.ret.rows) = 1
    /\ call.file.frame.rows[1]["classement"] = Str(<<"2", "-", " ", "A">>)
    /\ call.ret.rows[1]["classement"] = Str(<<"A">>)

\* C19: every cell of a column whose name contains score, taux or valeur
\* comes out numeric: a number keeps its value, a text of digits gets its
\* number, a text that is no number ("NC") and a missing cell are null; the
\* loader returns a table with every row of the sheet.
C19_NumericCoercion ==
    (MetricsReturned /\ call.file.exists /\ call.file.ok) =>
        /\ ~IsNone(call.ret)
        /\ Len(call.ret.rows) = Len(call.file.frame.rows)
        /\ \A i \in 1..Len(call.ret.rows) :
               LET raw == call.file.frame.rows[i]["score_all_ssr_ajust"]
                   out == call.ret.rows[i]["score_all_ssr_ajust"]
               IN /\ raw = IntCell(73) => out = IntCell(73)
                  /\ raw = Str(<<"7", "3">>) => out = IntCell(73)
                  /\ raw = Str(<<"N", "C">>) => out = NaN
                  /\ IsNa(raw) => out = NaN
                  /\ out = NaN \/ out[1] = "int"

\* a sheet of two rows, "NC" in the first and 73 in the second
C19_Witness ==
    /\ MetricsReturned
    /\ Len(call.ret.rows) = 2
    /\ call.file.frame.rows[1]["score_all_ssr_ajust"] = Str(<<"N", "C">>)
    /\ call.ret.rows[1]["score_all_ssr_ajust"] = NaN
    /\ call.ret.rows[2]["score_all_ssr_ajust"] = IntCell(73)

\* every raw row whose link key is the finess_et of exactly one row of etab
\* has exactly one row in final (same id), with that establishment's vel_id
OneToMany(final, raw, etab, id) ==
    \A q \in 1..Len(raw.rows) :
        \A e \in 1..Len(etab.rows) :
            (/\ etab.rows[e]["finess_et"] = raw.rows[q]["finess_et_link"]
             /\ \A e2 \in 1..Len(etab.rows) :
                    e2 # e => etab.rows[e2]["finess_et"] # raw.rows[q]["finess_et_link"]) =>
                /\ Cardinality({i \in 1..Len(final.rows) :
                                   final.rows[i][id] = raw.rows[q][id]}) = 1
                /\ \A i \in 1..Len(final.rows) :
                       final.rows[i][id] = raw.rows[q][id] =>
                           final.rows[i]["vel_id"] = etab.rows[e]["vel_id"]

\* C20: when several raw qualification (or metric) rows carry the facility
\* code of one establishment, each of them is in the final table exactly
\* once, with that establishment's vel_id.
C20_OneToMany ==
    \A y \in RunYears :
        Succeeded(y) =>
            /\ ~IsNone(run[y].df_qual_raw) =>
                   OneToMany(run[y].df_qual_final, run[y].df_qual_raw,
                             run[y].df_etab_final, "qua_id")
            /\ (/\ ~IsNone(run[y].df_metrics_raw)
                /\ "finess_et_link" \in ColSet(run[y].df_metrics_raw.cols)) =>
                   OneToMany(run[y].df_metrics_final, run[y].df_metrics_raw,
                             run[y].df_etab_final, "metric_id")

\* two qualification rows and two metric rows for the one establishment
C20_Witness ==
    /\ Succeeded(2024)
    /\ Len(run[2024].df_etab_final.rows) = 1
    /\ Len(run[2024].df_qual_raw.rows) = 2
    /\ run[2024].df_qual_raw.rows[1]["finess_et_link"]
           = run[2024].df_qual_raw.rows[2]["finess_et_link"]
    /\ Len(run[2024].df_qual_final.rows) = 2
    /\ run[2024].df_qual_final.rows[1]["qua_id"] # run[2024].df_qual_final.rows[2]["qua_id"]
    /\ run[2024].df_qual_final.rows[1]["vel_id"] = run[2024].df_qual_final.rows[2]["vel_id"]
    /\ Len(run[2024].df_metrics_raw.rows) = 2
    /\ Len(run[2024].df_metrics_final.rows) = 2
    /\ run[2024].df_metrics_final.rows[1]["vel_id"] = run[2024].df_etab_final.rows[1]["vel_id"]
    /\ run[2024].df_metrics_final.rows[2]["vel_id"] = run[2024].df_etab_final.rows[1]["vel_id"]

-----------------------------------------------------------------------------
(* process_year called for two years whose steps interleave (two processes *)
(* on the same data directory, one per year).                              *)

\* the bronze directories a run of SpecYears may find
YearDirs ==
    Dirs({MissingFile, File(FinessFrame(<<S12>>))},
         {<<MissingFile, File(GeoFrame(<<S12f>>, "finess_eg"))>>,
          <<File(DemarcheFrame), File(GeoFrame(<<S12f>>, "finess_eg"))>>},
         {File(MetricsFrame(<<S12>>))})

NextYears ==
    \E y \in Years :
        \/ \E dir \in YearDirs : Clean(y, dir)
        \/ ProcessYearStep(y)

SpecYears == Init /\ [][NextYears]_vars

\* the cells of a frame
CellsOf(df) == {df.rows[i][c] : i \in 1..Len(df.rows), c \in ColSet(df.cols)}

\* the draw numbers of the uuids found in the three files of a directory
UuidsIn(d) ==
    {c[2] : c \in {x \in CellsOf(d.etablissements) \cup CellsOf(d.qualifications)
                            \cup CellsOf(d.health_metrics) : x[1] = "uuid"}}

\* a file with each uuid replaced by its rank among the uuids U and each
\* timestamp by a fixed one: uuid4 values and the clock differ between any
\* two executions, interleaved or not
CanonFile(df, U) ==
    [df EXCEPT !.rows =
        [i \in 1..Len(df.rows) |->
            [c \in ColSet(df.cols) |->
                LET x == df.rows[i][c]
                IN IF x[1] = "uuid" THEN Uuid(Cardinality({m \in U : m < x[2]}))
                   ELSE IF x[1] = "ts" THEN Timestamp(0)
                   ELSE x]]]

CanonDir(d) ==
    [etablissements |-> CanonFile(d.etablissements, UuidsIn(d)),
     qualifications |-> CanonFile(d.qualifications, UuidsIn(d)),
     health_metrics |-> CanonFile(d.health_metrics, UuidsIn(d))]

\* the file save_processed leaves for a frame in a directory that was empty
Written(df) == IF IsEmpty(df) THEN Absent ELSE df

\* the silver directory process_year(y) leaves when it runs alone, from start
\* to end, on the bronze directory dir and an empty silver directory
AloneDir(dir, y) ==
    LET etab == load_clean_finess(dir.finess, 0, Epoch)
        qual == load_clean_has(dir.has_demarche, dir.has_etab_geo,
                               Len(etab.rows), Epoch)
        metr == load_clean_health_metrics(dir.health_metrics,
                                          Len(etab.rows) + Len(qual.rows), Epoch)
        etab2 == EnforceSchemaArg(etab, Etablissement)
    IN IF IsNone(etab) THEN NoOutput
       ELSE [etablissements |-> EnforceSchema(etab, Etablissement),
             qualifications |->
                 IF IsNone(qual) THEN Absent
                 ELSE Written(EnforceSchema(LinkToEtab(qual, etab2), Qualification)),
             health_metrics |->
                 IF IsNone(metr) \/ "finess_et_link" \notin ColSet(metr.cols)
                 THEN Absent
                 ELSE Written(EnforceSchema(MetricsMetadata(LinkToEtab(metr, etab2), y),
                                            HealthMetrics))]

\* C21: two process_year runs for different years, interleaved in any order,
\* touch disjoint files: a step changes the silver directory of one year at
\* most, the year of the run that takes it, and when a run has ended without
\* a failed write its silver directory is the one it leaves when it runs
\* alone (uuid values and timestamps apart).
C21_YearsDisjoint ==
    /\ [](\A y \in Years :
              (run[y].pc = "returned" /\ run[y].result # "raised") =>
                  CanonDir(silver[y]) = CanonDir(AloneDir(bronze[y], y)))
    /\ [][\A y \in Years :
              silver'[y] # silver[y] =>
                  /\ run'[y] # run[y]
                  /\ \A z \in Years \ {y} : silver'[z] = silver[z] /\ run'[z] = run[z]]_vars

\* both runs have written their three files, and the run of 2023 read its
\* sources while the run of 2024 had read its own but not yet written
C21_Witness ==
    /\ Succeeded(2023)
    /\ Succeeded(2024)
    /\ silver[2023].qualifications # Absent
    /\ silver[2024].health_metrics # Absent
    /\ silver[2023].etablissements.rows[1]["vel_id"][2]
           > silver[2024].etablissements.rows[1]["vel_id"][2]
    /\ silver[2023].etablissements.rows[1]["vel_id"][2]
           < silver[2024].health_metrics.rows[1]["metric_id"][2]

\* the write the run is about to do is one save_processed performs
WriteDue(y) ==
    \/ run[y].pc = "save_etab"
    \/ run[y].pc = "save_qual" /\ ~IsEmpty(run[y].df_qual_final)
    \/ run[y].pc = "save_metrics" /\ ~IsEmpty(run[y].df_metrics_final)

\* C22: a due write that leaves its file as it was (the write failed) ends
\* process_year with an exception, not with the success result; after that
\* the run takes no further step (no retry) and writes no file, so the
\* tables after the failed one in write order are not written: the last
\* one, health_metrics, is never there after a failure, and nothing is
\* there when the first write failed.
C22_WriteFailureEndsRun ==
    /\ [](\A y \in RunYears :
              (run[y].pc = "returned" /\ run[y].result = "raised") =>
                  /\ silver[y].health_metrics = Absent
                  /\ silver[y].etablissements = Absent =>
                         silver[y].qualifications = Absent)
    /\ [][\A y \in RunYears :
              /\ (WriteDue(y) /\ run'[y] # run[y] /\ silver'[y] = silver[y]) =>
                     run'[y].pc = "returned" /\ run'[y].result = "raised"
              /\ run[y].result = "raised" =>
                     run'[y] = run[y] /\ silver'[y] = silver[y]]_vars

\* the write of qualifications.csv failed: etablissements.csv is there,
\* the two other files are not, though the run had metrics to write
C22_Witness ==
    /\ run[2024].pc = "returned"
    /\ run[2024].result = "raised"
    /\ silver[2024].etablissements # Absent
    /\ silver[2024].qualifications = Absent
    /\ ~IsEmpty(run[2024].df_qual_final)
    /\ ~IsEmpty(run[2024].df_metrics_final)
    /\ silver[2024].health_metrics = Absent

-----------------------------------------------------------------------------
(* A single run under the scheduling of a Python call: a call that can take *)
(* a step takes it (nothing in process_year waits).                         *)

\* process_year(y) has been called and has not ended: one of its steps is
\* enabled, and only then
Running(y) == run[y].pc \notin {"idle", "returned"}

\* weak fairness of the steps of each call, WF_vars(ProcessYearStep(y)),
\* written with Running(y) for ENABLED <<ProcessYearStep(y)>>_vars
SpecLive ==
    /\ Init
    /\ [][Next]_vars
    /\ \A y \in RunYears :
           []<>(~Running(y)) \/ []<><<ProcessYearStep(y)>>_vars

\* the position of a program counter in process_year
PcRank(pc) ==
    CASE pc = "idle" -> 0
      [] pc = "load_finess" -> 1
      [] pc = "load_has" -> 2
      [] pc = "load_metrics" -> 3
      [] pc = "check" -> 4
      [] pc = "link_qual" -> 5
      [] pc = "link_metrics" -> 6
      [] pc = "save_etab" -> 7
      [] pc = "save_qual" -> 8
      [] pc = "save_metrics" -> 9
      [] pc = "return" -> 10
      [] OTHER -> 11

\* C23: every run of process_year that starts ends (with None, the dict or
\* an exception), its steps follow the order read the three sources, enforce
\* the establishment table, link and enforce qualifications, link and
\* enforce metrics, write; and a file is written only at the write steps,
\* when the three loaders have returned and the three final tables are
\* built.
C23_PhasesInOrder ==
    /\ \A y \in RunYears : (run[y].pc # "idle") ~> (run[y].pc = "returned")
    /\ [](\A y \in RunYears :
              /\ silver[y] # NoOutput => PcRank(run[y].pc) >= 8
              /\ PcRank(run[y].pc) \in 7..10 =>
                     /\ ~IsNone(run[y].df_etab)
                     /\ ~IsNone(run[y].df_etab_final)
                     /\ ~IsNone(run[y].df_qual_final)
                     /\ ~IsNone(run[y].df_metrics_final))
    /\ [][\A y \in RunYears :
              /\ run'[y].pc # run[y].pc =>
                     \/ PcRank(run'[y].pc) = PcRank(run[y].pc) + 1
                     \/ run'[y].pc = "returned" /\ run'[y].result \in {"None", "raised"}
              /\ silver'[y] # silver[y] => PcRank(run[y].pc) \in 7..9]_vars

\* a run that read three sources, linked both downstream tables and wrote
\* the three files
C23_Witness ==
    /\ Succeeded(2024)
    /\ ~IsEmpty(run[2024].df_qual_final)
    /\ ~IsEmpty(run[2024].df_metrics_final)
    /\ silver[2024].etablissements = run[2024].df_etab_final
    /\ silver[2024].qualifications = run[2024].df_qual_final
    /\ silver[2024].health_metrics = run[2024].df_metrics_final

-----------------------------------------------------------------------------
(* Ingestion (src/src/ingestion_manager.py).  call = [fn, pc, start, end,   *)
(* year, raw, log, found]: pc the download run_year_ingestion is about to   *)
(* make for call.year ("done" after the loop, "raised" when an exception    *)
(* left run_multi_year_ingestion), raw[y] the names of the files of the     *)
(* raw directory of year y, a name being <<stem, extension>>, log the      *)
(* downloads made so far as <<year, source, outcome>>, found[y] what the    *)
(* loaders of data_cleaner.py find in raw[y] (once they have looked).       *)
(* The answers of data.gouv.fr and of the file system are drawn at each     *)
(* download.                                                                *)

IngestYears == {2020, 2021}

\* a resource of a dataset: its 'format' ("null" is the JSON null) and
\* whether its title holds the keyword the download looks for
Resource(format, hit) == [format |-> format, hit |-> hit]

ResourceKinds ==
    {Resource("xlsx", TRUE), Resource("csv", TRUE), Resource("csv", FALSE),
     Resource("pdf", TRUE), Resource("null", FALSE)}

ResourceLists == SeqsUpTo(ResourceKinds, MaxResources)

NoResource == Resource("none", FALSE)

IsTabular(res) == res.format \in {"csv", "xlsx"}

\* res.get('format', '').lower() on a null format raises AttributeError: the
\* loop reaches such a resource when no earlier resource made it break
FormatRaises(resources, formats) ==
    \E i \in 1..Len(resources) :
        /\ resources[i].format = "null"
        /\ \A j \in 1..(i - 1) :
               ~(resources[j].format \in formats /\ resources[j].hit)

\* lines 93-105: the first csv/xlsx resource with a matching title, else the
\* first csv/xlsx resource
TargetResource(resources) ==
    LET Match(r) == IsTabular(r) /\ r.hit
        hits == SelectSeq(resources, Match)
        tabular == SelectSeq(resources, IsTabular)
    IN IF hits # <<>> THEN Head(hits)
       ELSE IF tabular # <<>> THEN Head(tabular)
       ELSE NoResource

\* open(save_path, 'wb') and f.write: "ok", "open_fails" (no file is
\* created) or "write_fails" (the file is created, its content is not
\* complete); both failures are caught
SaveFile(files, name, write) ==
    IF write = "open_fails" THEN files ELSE files \cup {name}

Outcome(ret, files) == [ret |-> ret, files |-> files]

\* download_health_metrics, lines 64-132; ensure_year_directory (line 123)
\* is called outside the try of lines 125-132
download_health_metrics(files, w) ==
    LET target == TargetResource(w.resources)
    IN IF ~w.search \/ ~w.info THEN Outcome("False", files)
       ELSE IF FormatRaises(w.resources, {"csv", "xlsx"}) THEN Outcome("raised", files)
       ELSE IF target = NoResource \/ ~w.response THEN Outcome("False", files)
       ELSE IF ~w.mkdir THEN Outcome("raised", files)
       ELSE Outcome(IF w.write = "ok" THEN "True" ELSE "False",
                    SaveFile(files, <<"health_metrics", target.format>>, w.write))

\* download_finess_data, lines 148-174, with find_csv_resource of
\* datagouv_api.py (the resources are taken in the order sorted() leaves)
download_finess_data(files, w) ==
    IF ~w.info THEN Outcome("False", files)
    ELSE IF FormatRaises(w.resources, {"csv"}) THEN Outcome("raised", files)
    ELSE IF ~(\E i \in 1..Len(w.resources) :
                  w.resources[i].format = "csv" /\ w.resources[i].hit)
              \/ ~w.response
         THEN Outcome("False", files)
    ELSE IF ~w.mkdir THEN Outcome("raised", files)
    ELSE Outcome(IF w.write = "ok" THEN "True" ELSE "False",
                 SaveFile(files, <<"finess", "csv">>, w.write))

\* download_has_certification, lines 190-239: w.listed[i] says whether the
\* i-th resource (demarche.csv, etablissement-geo.csv) is listed, w.response
\* and w.write answer for both
download_has_certification(year, files, w) ==
    LET names == <<<<"has_demarche", "csv">>, <<"has_etab_geo", "csv">>>>
        fetched == {i \in 1..2 : w.listed[i] /\ w.response}
        saved == {names[i] : i \in fetched}
    IN IF ~(2021 <= year /\ year <= 2025) \/ ~w.info THEN Outcome("False", files)
       ELSE IF fetched # {} /\ ~w.mkdir THEN Outcome("raised", files)
       ELSE IF w.write = "ok" THEN Outcome(IF fetched # {} THEN "True" ELSE "False",
                                            files \cup saved)
       ELSE Outcome("False", IF w.write = "open_fails" THEN files ELSE files \cup saved)

\* the answers one download may get
MetricsWorlds ==
    [search : BOOLEAN, info : BOOLEAN, resources : ResourceLists,
     response : BOOLEAN, mkdir : BOOLEAN, write : {"ok", "open_fails", "write_fails"}]

FinessWorlds ==
    [info : BOOLEAN, resources : ResourceLists,
     response : BOOLEAN, mkdir : BOOLEAN, write : {"ok", "open_fails", "write_fails"}]

HasWorlds ==
    [info : BOOLEAN, listed : {<<TRUE, TRUE>>, <<TRUE, FALSE>>, <<FALSE, FALSE>>},
     response : BOOLEAN, mkdir : BOOLEAN, write : {"ok", "open_fails", "write_fails"}]

NotLooked == [looked |-> FALSE, finess |-> FALSE, has |-> FALSE, health_metrics |-> FALSE]

\* run_multi_year_ingestion(start, end) is called: range(start, end + 1)
InitIngest ==
    /\ PipelineOff
    /\ \E start \in IngestYears, end \in IngestYears :
           call = [fn |-> "run_multi_year_ingestion",
                   pc |-> IF start <= end THEN "health_metrics" ELSE "done",
                   start |-> start, end |-> end, year |-> start,
                   raw |-> [y \in IngestYears |-> {}],
                   log |-> <<>>,
                   found |-> [y \in IngestYears |-> NotLooked]]

\* one download of run_year_ingestion (lines 250-252) has returned or raised
Downloaded(source, out, next_pc) ==
    call' = [call EXCEPT
                !.raw[call.year] = out.files,
                !.log = Append(@, <<call.year, source, out.ret>>),
                !.pc = IF out.ret = "raised" THEN "raised" ELSE next_pc]

\* line 250
DownloadHealthMetrics ==
    /\ call.fn = "run_multi_year_ingestion"
    /\ call.pc = "health_metrics"
    /\ \E w \in MetricsWorlds :
           Downloaded("health_metrics",
                      download_health_metrics(call.raw[call.year], w), "finess")
    /\ UNCHANGED <<bronze, silver, run, next_uuid, nruns>>

\* line 251
DownloadFiness ==
    /\ call.fn = "run_multi_year_ingestion"
    /\ call.pc = "finess"
    /\ \E w \in FinessWorlds :
           Downloaded("finess", download_finess_data(call.raw[call.year], w), "has")
    /\ UNCHANGED <<bronze, silver, run, next_uuid, nruns>>

\* line 252, then the next turn of the loop of lines 265-266
DownloadHas ==
    /\ call.fn = "run_multi_year_ingestion"
    /\ call.pc = "has"
    /\ \E w \in HasWorlds :
           LET out == download_has_certification(call.year, call.raw[call.year], w)
           IN call' = [call EXCEPT
                          !.raw[call.year] = out.files,
                          !.log = Append(@, <<call.year, "has", out.ret>>),
                          !.pc = IF out.ret = "raised" THEN "raised"
                                 ELSE IF call.year < call.end THEN "health_metrics"
                                 ELSE "done",
                          !.year = IF out.ret # "raised" /\ call.year < call.end
                                   THEN call.year + 1 ELSE @]
    /\ UNCHANGED <<bronze, silver, run, next_uuid, nruns>>

\* process_year(y) of data_cleaner.py looks for its three sources in the raw
\* directory (lines 72-75, 169-175 and 237-240)
ProcessYearLooks(y) ==
    /\ call.fn = "run_multi_year_ingestion"
    /\ call.pc \in {"done", "raised"}
    /\ ~call.found[y].looked
    /\ call' = [call EXCEPT
                   !.found[y] =
                       [looked |-> TRUE,
                        finess |-> <<"finess", "csv">> \in call.raw[y],
                        has |-> /\ <<"has_demarche", "csv">> \in call.raw[y]
                                /\ <<"has_etab_geo", "csv">> \in call.raw[y],
                        health_metrics |-> <<"health_metrics", "xlsx">> \in call.raw[y]]]
    /\ UNCHANGED <<bronze, silver, run, next_uuid, nruns>>

NextIngest ==
    \/ DownloadHealthMetrics
    \/ DownloadFiness
    \/ DownloadHas
    \/ \E y \in IngestYears : ProcessYearLooks(y)

SpecIngest == InitIngest /\ [][NextIngest]_vars

Sources == <<"health_metrics", "finess", "has">>

\* the downloads made so far are, in order, the three downloads of start,
\* those of start + 1, ...
InIngestionOrder ==
    \A k \in 1..Len(call.log) :
        /\ call.log[k][1] = call.start + ((k - 1) \div 3)
        /\ call.log[k][2] = Sources[((k - 1) % 3) + 1]

\* C24 as stated: the three downloads of a year are attempted in the order
\* health metrics, FINESS, HAS, each one whether or not an earlier one
\* failed, for the years start_year..end_year in ascending order, a year's
\* downloads starting after those of the previous year: when the call has
\* ended, three downloads have been attempted for every year of the range.
C24_Original ==
    /\ InIngestionOrder
    /\ call.pc \in {"done", "raised"} =>
           Len(call.log) = 3 * (IF call.start <= call.end
                                THEN call.end - call.start + 1 ELSE 0)

\* C29 as stated: whenever download_health_metrics(year) has returned True,
\* a following process_year(year) on the same raw directory finds the
\* health-metrics source of that year, whatever the format of the
\* downloaded resource.
C29_IngestionProcessingAgree ==
    \A y \in IngestYears :
        (/\ \E k \in 1..Len(call.log) : call.log[k] = <<y, "health_metrics", "True">>
         /\ call.found[y].looked) =>
            call.found[y].health_metrics

-----------------------------------------------------------------------------
(* The cache of BaseConnector (src/src/connectors/base.py).  call = [fn,    *)
(* cache, clock, op, key, ret, last]: cache the dict self.cache (NoEntry    *)
(* for an absent key), clock what datetime.utcnow() returns, in hours, op,  *)
(* key and ret the last call and what it returned, last[k] the history of   *)
(* key k: whether cache_data(k, ...) was ever called, its latest data,      *)
(* time and ttl, and whether clear_cache() was called since.                *)

CacheKeys == {"finess_data", "other"}

CacheValues == {"df1", "df2"}

NoEntry == [data |-> "none", timestamp |-> 0, ttl |-> 0]

NeverStored == [stored |-> FALSE, data |-> "none", at |-> 0, ttl |-> 0, cleared |-> FALSE]

InitCache ==
    /\ PipelineOff
    /\ call = [fn |-> "cache", cache |-> [k \in CacheKeys |-> NoEntry], clock |-> 0,
               op |-> "init", key |-> "none", ret |-> "None",
               last |-> [k \in CacheKeys |-> NeverStored]]

\* Variant: the entry is returned whatever its age
get_cached_data_no_expiry(cache, key, now) ==
    IF cache[key] = NoEntry THEN [ret |-> "None", cache |-> cache]
    ELSE [ret |-> cache[key].data, cache |-> cache]

\* get_cached_data, lines 156-168
get_cached_data(cache, key, now) ==
    IF cache[key] = NoEntry THEN [ret |-> "None", cache |-> cache]
    ELSE IF now - cache[key].timestamp > cache[key].ttl
         THEN [ret |-> "None", cache |-> [cache EXCEPT ![key] = NoEntry]]
         ELSE [ret |-> cache[key].data, cache |-> cache]

\* cache_data(key, data, ttl_hours), lines 139-143
CacheData(key, data, ttl) ==
    /\ call.fn = "cache"
    /\ call' = [call EXCEPT
                   !.cache[key] = [data |-> data, timestamp |-> call.clock, ttl |-> ttl],
                   !.op = "cache_data", !.key = key, !.ret = "None",
                   !.last[key] = [stored |-> TRUE, data |-> data, at |-> call.clock,
                                  ttl |-> ttl, cleared |-> FALSE]]
    /\ UNCHANGED <<bronze, silver, run, next_uuid, nruns>>

GetCachedData(key) ==
    /\ call.fn = "cache"
    /\ LET out == get_cached_data(call.cache, key, call.clock)
       IN call' = [call EXCEPT !.cache = out.cache, !.op = "get_cached_data",
                               !.key = key, !.ret = out.ret]
    /\ UNCHANGED <<bronze, silver, run, next_uuid, nruns>>

\* clear_cache, line 172
ClearCache ==
    /\ call.fn = "cache"
    /\ call' = [call EXCEPT
                   !.cache = [k \in CacheKeys |-> NoEntry],
                   !.op = "clear_cache", !.key = "none", !.ret = "None",
                   !.last = [k \in CacheKeys |-> [call.last[k] EXCEPT !.cleared = TRUE]]]
    /\ UNCHANGED <<bronze, silver, run, next_uuid, nruns>>

\* an hour passes
Tick ==
    /\ call.fn = "cache"
    /\ call.clock < MaxTime
    /\ call' = [call EXCEPT !.clock = @ + 1, !.op = "tick", !.key = "none", !.ret = "None"]
    /\ UNCHANGED <<bronze, silver, run, next_uuid, nruns>>

NextCache ==
    \/ \E key \in CacheKeys, data \in CacheValues, ttl \in 0..MaxTtl :
           CacheData(key, data, ttl)
    \/ \E key \in CacheKeys : GetCachedData(key)
    \/ ClearCache
    \/ Tick

SpecCache == InitCache /\ [][NextCache]_vars

\* the latest cache_data(k, ...) was not followed by clear_cache() and is
\* not older than its ttl
Fresh(k) ==
    /\ call.last[k].stored
    /\ ~call.last[k].cleared
    /\ call.clock - call.last[k].at <= call.last[k].ttl

\* C25: get_cached_data(key) returns the data of the most recent
\* cache_data(key, ...) exactly when that entry was not cleared and is not
\* older than its ttl, and None otherwise; after a read that returned None
\* the key is not in the cache, and a cached key is one whose latest
\* cache_data was not cleared (an expired entry stays until it is read).
C25_CacheFreshness ==
    /\ call.op = "get_cached_data" =>
           /\ call.ret = (IF Fresh(call.key) THEN call.last[call.key].data ELSE "None")
           /\ call.ret = "None" => call.cache[call.key] = NoEntry
    /\ \A k \in CacheKeys :
           call.cache[k] # NoEntry =>
               /\ call.last[k].stored /\ ~call.last[k].cleared
               /\ call.cache[k].data = call.last[k].data
               /\ call.cache[k].timestamp = call.last[k].at
               /\ call.cache[k].ttl = call.last[k].ttl

\* an entry stored with ttl 1 is read two hours later: None, and the entry
\* is gone
C25_Witness ==
    /\ call.op = "get_cached_data"
    /\ call.key = "finess_data"
    /\ call.last["finess_data"].stored
    /\ ~call.last["finess_data"].cleared
    /\ call.last["finess_data"].ttl = 1
    /\ call.clock - call.last["finess_data"].at = 2
    /\ call.ret = "None"
    /\ call.cache["finess_data"] = NoEntry

\* the raw facility codes of has_etab_geo_clean.csv, whatever the name of
\* their column
GeoCodes(y) ==
    LET geo == bronze[y].has_etab_geo.frame
    IN {geo.rows[i][c] : i \in 1..Len(geo.rows),
                         c \in ColSet(geo.cols) \ {"code_demarche"}}

\* C26 as stated: a raw metric row whose facility code is missing is absent
\* from the final HealthMetrics table, and when every raw qualification row
\* has a missing facility code the final Qualification table is empty, also
\* when an establishment row has a missing facility code.
C26_NullCodeNeverLinked ==
    \A y \in RunYears :
        Succeeded(y) =>
            /\ (/\ ~IsNone(run[y].df_metrics_raw)
                /\ "finess" \in ColSet(run[y].df_metrics_raw.cols)) =>
                   \A q \in Rows(run[y].df_metrics_raw) :
                       q["finess"] = NaN =>
                           \A r \in Rows(run[y].df_metrics_final) :
                               r["metric_id"] # q["metric_id"]
            /\ (~IsNone(run[y].df_qual_raw) /\ GeoCodes(y) = {NaN}) =>
                   IsEmpty(run[y].df_qual_final)

\* the cells of column id are pairwise distinct over the rows of df
UniqueKey(df, id) ==
    \A i, j \in 1..Len(df.rows) : i # j => df.rows[i][id] # df.rows[j][id]

\* C27 as stated: in every final table of a run the primary key is unique,
\* vel_id in Etablissement, qua_id in Qualification and metric_id in
\* HealthMetrics, whatever the raw inputs.
C27_PrimaryKeysUnique ==
    \A y \in RunYears :
        Succeeded(y) =>
            /\ UniqueKey(run[y].df_etab_final, "vel_id")
            /\ UniqueKey(run[y].df_qual_final, "qua_id")
            /\ UniqueKey(run[y].df_metrics_final, "metric_id")

\* b has one row per row of a, in the same order, with the same vel_id and
\* finess_et
SameEstablishments(a, b) ==
    /\ Len(a.rows) = Len(b.rows)
    /\ \A i \in 1..Len(a.rows) :
           /\ a.rows[i]["vel_id"] = b.rows[i]["vel_id"]
           /\ a.rows[i]["finess_et"] = b.rows[i]["finess_et"]

\* C28: from the enforcement of the establishment table to the end of the
\* run, the final Etablissement table has one row per row of the table
\* load_clean_finess extracted (the first loader of the run: its uuids start
\* at the first draw), in the same order and with the same vel_id and
\* finess_et, whatever the HAS and metrics sources are; a run that succeeds
\* writes that table.
C28_EstablishmentsUntouched ==
    \A y \in RunYears :
        (PcRank(run[y].pc) >= 5 /\ run[y].result # "None") =>
            /\ SameEstablishments(load_clean_finess(bronze[y].finess, 0, RunTime),
                                  run[y].df_etab_final)
            /\ Succeeded(y) => silver[y].etablissements = run[y].df_etab_final

\* two establishments, a qualification row for the first one only and no
\* metrics file
C28_Witness ==
    /\ Succeeded(2024)
    /\ Len(run[2024].df_etab_final.rows) = 2
    /\ Len(run[2024].df_qual_final.rows) = 1
    /\ run[2024].df_qual_final.rows[1]["vel_id"] = run[2024].df_etab_final.rows[1]["vel_id"]
    /\ run[2024].df_etab_final.rows[2]["vel_id"] # run[2024].df_etab_final.rows[1]["vel_id"]
    /\ ~bronze[2024].health_metrics.exists

\* C30 as stated: _enforce_schema has no effect on its argument, the frame
\* the caller handed over has the same columns and values after the call
\* as before it.
C30_EnforceLeavesArgument ==
    EnforceReturned => call.df = call.arg

====
